---- MODULE Spec2Model ----
(***************************************************************************)
(* Model of markdown-to-slack-blocks: the line-oriented MarkdownParser and *)
(* the SlackBlockBuilder (single-group and multi-group assembly).          *)
(*                                                                         *)
(* Text is modelled as sequences of one-character strings, so that the     *)
(* regular expressions of the parser are computed character by character.  *)
(* Line indices are 0-based as in the source: line i is lines[i + 1].      *)
(***************************************************************************)
EXTENDS Integers, Sequences, FiniteSets, TLC

VARIABLES
    origin,                   \* "text": markdown given to the converter; "tree": tree given to the builder;
                              \* "reuse": trees given to one builder, call after call;
                              \* "metadata": markdown given to markdownToSlackBlocksWithMetadata;
                              \* "converter": markdown given to a MarkdownConverter, call after call
    lines,                    \* MarkdownParser.lines
    options,                  \* SlackBlockBuilder.options (after merging with DEFAULT_OPTIONS)
    pc,                       \* position in the conversion
    currentIndex,             \* parse(): currentIndex
    document,                 \* parse(): document.children
    childIndex,               \* position of the for-loop over node.children in the running build call
    currentRichTextElements,  \* SlackBlockBuilder.currentRichTextElements
    blocks,                   \* buildBlocks(): blocks
    blockArrays,              \* buildBlocksMultiple(): blockArrays
    currentBlocks,            \* buildBlocksMultiple(): currentBlocks
    tableCount,               \* buildBlocksMultiple(): tableCount
    arrayId,                  \* identity of the array object currentRichTextElements refers to
    held,                     \* identities of the array objects held by the rich_text blocks pushed so far
    calls,                    \* the calls of the build methods that have returned, with what they returned
    output,                   \* what the function called on the markdown has returned
    converter                 \* the MarkdownConverter the markdown is given to

vars == << origin, lines, options, pc, currentIndex, document, childIndex,
           currentRichTextElements, blocks, blockArrays, currentBlocks, tableCount,
           arrayId, held, calls, output, converter >>

----------------------------------------------------------------------------
(* Bounds of the model *)

MaxLines == 3

\* calls made on one builder, and on one converter
MaxCalls == 3
MaxChunks == 3
MaxTreeNodes == 3
MaxDocNodes == 8

\* most inline pieces in a line of formatted text
MaxPieces == 2

\* most lines in a text made of list lines
MaxListLines == 3

----------------------------------------------------------------------------
(* Strings as sequences of characters *)

Min(a, b) == IF a < b THEN a ELSE b

Max(a, b) == IF a > b THEN a ELSE b

Digits == {"0", "1", "2", "3", "4", "5", "6", "7", "8", "9"}

WordChars ==
    Digits \cup {"_"} \cup
    {"a", "b", "c", "d", "e", "f", "g", "h", "i", "j", "k", "l", "m",
     "n", "o", "p", "q", "r", "s", "t", "u", "v", "w", "x", "y", "z"} \cup
    {"A", "B", "C", "D", "E", "F", "G", "H", "I", "J", "K", "L", "M",
     "N", "O", "P", "Q", "R", "S", "T", "U", "V", "W", "X", "Y", "Z"}

\* the character U+0060, which the lexer does not accept inside a string
Backtick == "BACKTICK"

IsSpace(c) == c \in {" ", "\t", "\n", "\r"}

Slice(s, from, to) == IF from > to THEN << >> ELSE SubSeq(s, from, to)

RECURSIVE SpacesFrom(_, _)
\* number of consecutive whitespace characters of s from position from on
SpacesFrom(s, from) ==
    IF from > Len(s) \/ ~IsSpace(s[from]) THEN 0 ELSE 1 + SpacesFrom(s, from + 1)

RECURSIVE SpacesBefore(_, _)
\* number of consecutive whitespace characters of s from position to backwards
SpacesBefore(s, to) ==
    IF to < 1 \/ ~IsSpace(s[to]) THEN 0 ELSE 1 + SpacesBefore(s, to - 1)

RECURSIVE RunFrom(_, _, _)
\* number of consecutive characters of s from position from on that belong to cs
RunFrom(s, from, cs) ==
    IF from > Len(s) \/ s[from] \notin cs THEN 0 ELSE 1 + RunFrom(s, from + 1, cs)

RECURSIVE RunNotFrom(_, _, _)
\* number of consecutive characters of s from position from on that differ from x
RunNotFrom(s, from, x) ==
    IF from > Len(s) \/ s[from] = x THEN 0 ELSE 1 + RunNotFrom(s, from + 1, x)

Trim(s) ==
    IF SpacesFrom(s, 1) = Len(s) THEN << >>
    ELSE Slice(s, SpacesFrom(s, 1) + 1, Len(s) - SpacesBefore(s, Len(s)))

StartsWith(s, p) == Len(s) >= Len(p) /\ Slice(s, 1, Len(p)) = p

EndsWith(s, p) == Len(s) >= Len(p) /\ Slice(s, Len(s) - Len(p) + 1, Len(s)) = p

Includes(s, c) == \E k \in 1..Len(s) : s[k] = c

RECURSIVE Join(_, _)
Join(ss, sep) ==
    IF ss = << >> THEN << >>
    ELSE IF Len(ss) = 1 THEN ss[1]
    ELSE ss[1] \o sep \o Join(Tail(ss), sep)

RECURSIVE SplitFrom(_, _, _)
\* String.prototype.split on a one-character separator, for the part of s from position from on
SplitFrom(s, from, c) ==
    IF from + RunNotFrom(s, from, c) > Len(s) THEN << Slice(s, from, Len(s)) >>
    ELSE << Slice(s, from, from + RunNotFrom(s, from, c) - 1) >>
         \o SplitFrom(s, from + RunNotFrom(s, from, c) + 1, c)

Split(s, c) == SplitFrom(s, 1, c)

RECURSIVE TrimAll(_)
TrimAll(ss) == IF ss = << >> THEN << >> ELSE << Trim(Head(ss)) >> \o TrimAll(Tail(ss))

DigitValue(c) ==
    CHOOSE n \in 0..9 : << "0", "1", "2", "3", "4", "5", "6", "7", "8", "9" >>[n + 1] = c

RECURSIVE ParseInt(_)
\* parseInt(ds, 10) for a string of decimal digits
ParseInt(ds) ==
    IF ds = << >> THEN 0
    ELSE 10 * ParseInt(Slice(ds, 1, Len(ds) - 1)) + DigitValue(ds[Len(ds)])

----------------------------------------------------------------------------
(* MarkdownParser: inline scan *)

TextNode(s) == [type |-> "text", content |-> s]

NoMatch == [ok |-> FALSE]

\* /^O([^x]+)C/ where the delimiters O and C are made of the character x:
\* the captured run stops at the first x, which must start the closing delimiter
DelimitedMatch(s, open, x, close) ==
    LET Captured(n) ==
            IF n >= 1 /\ StartsWith(Slice(s, Len(open) + n + 1, Len(s)), close)
            THEN [ok |-> TRUE, inner |-> Slice(s, Len(open) + 1, Len(open) + n),
                  len |-> Len(open) + n + Len(close)]
            ELSE NoMatch
    IN  IF StartsWith(s, open) THEN Captured(RunNotFrom(s, Len(open) + 1, x)) ELSE NoMatch

\* /^\[([^\]]*)\]\s*\(([^)]+)\)/ when spaces is TRUE, /^\[([^\]]*)\]\(([^)]+)\)/ otherwise;
\* t, w and u are the lengths of the text, of the whitespace and of the target
BracketMatch(s, spaces) ==
    LET Target(t, w, u) ==
            IF u >= 1 /\ t + w + u + 4 <= Len(s)
            THEN [ok |-> TRUE, text |-> Slice(s, 2, t + 1),
                  target |-> Slice(s, t + w + 4, t + w + u + 3), len |-> t + w + u + 4]
            ELSE NoMatch
        Paren(t, w) ==
            IF t + w + 3 <= Len(s) /\ s[t + w + 3] = "("
            THEN Target(t, w, RunNotFrom(s, t + w + 4, ")"))
            ELSE NoMatch
        Text(t) ==
            IF t + 2 <= Len(s) THEN Paren(t, IF spaces THEN SpacesFrom(s, t + 3) ELSE 0)
            ELSE NoMatch
    IN  IF StartsWith(s, << "[" >>) THEN Text(RunNotFrom(s, 2, "]")) ELSE NoMatch

\* /^<(https?:\/\/[^>]+)>/
AutoLinkMatch(s) ==
    LET Url(scheme, n) ==
            IF scheme > 0 /\ n >= 1 /\ scheme + n + 1 <= Len(s)
            THEN [ok |-> TRUE, inner |-> Slice(s, 2, scheme + n), len |-> scheme + n + 1]
            ELSE NoMatch
        Scheme(scheme) == Url(scheme, RunNotFrom(s, scheme + 1, ">"))
    IN  Scheme(IF StartsWith(s, << "<", "h", "t", "t", "p", "s", ":", "/", "/" >>) THEN 9
               ELSE IF StartsWith(s, << "<", "h", "t", "t", "p", ":", "/", "/" >>) THEN 8
               ELSE 0)

\* /^!\[([^\]]*)\]\(([^)]+)\)/
ImageMatch(s) ==
    LET Shifted(m) ==
            IF m.ok THEN [ok |-> TRUE, text |-> m.text, target |-> m.target, len |-> m.len + 1]
            ELSE NoMatch
    IN  IF StartsWith(s, << "!" >>) THEN Shifted(BracketMatch(Slice(s, 2, Len(s)), FALSE))
        ELSE NoMatch

RECURSIVE parseInlineElements(_)
RECURSIVE InlineScan(_, _)

\* the node pushed for a match m of a rule whose node has children parsed from the capture
SpanRule(m, type) ==
    IF m.ok
    THEN [ok |-> TRUE, len |-> m.len,
          node |-> [type |-> type, children |-> parseInlineElements(m.inner)]]
    ELSE NoMatch

CodeRule(m) ==
    IF m.ok
    THEN [ok |-> TRUE, len |-> m.len, node |-> [type |-> "code_inline", content |-> m.inner]]
    ELSE NoMatch

LinkRule(m) ==
    IF m.ok
    THEN [ok |-> TRUE, len |-> m.len,
          node |-> [type |-> "link",
                    content |-> IF m.text # << >> THEN m.text ELSE m.target,
                    attributes |-> [href |-> m.target]]]
    ELSE NoMatch

AutoLinkRule(m) ==
    IF m.ok
    THEN [ok |-> TRUE, len |-> m.len,
          node |-> [type |-> "link", content |-> m.inner, attributes |-> [href |-> m.inner]]]
    ELSE NoMatch

ImageRule(m) ==
    IF m.ok
    THEN [ok |-> TRUE, len |-> m.len,
          node |-> [type |-> "image", content |-> m.text, attributes |-> [src |-> m.target]]]
    ELSE NoMatch

RECURSIVE FirstMatch(_)
FirstMatch(rules) ==
    IF rules = << >> THEN NoMatch
    ELSE IF Head(rules).ok THEN Head(rules)
    ELSE FirstMatch(Tail(rules))

\* the first rule that matches at the start of s, in the order the source tries them
InlineRule(s) ==
    FirstMatch(<<
        CodeRule(DelimitedMatch(s, << Backtick >>, Backtick, << Backtick >>)),
        SpanRule(DelimitedMatch(s, << "*", "*" >>, "*", << "*", "*" >>), "strong"),
        SpanRule(DelimitedMatch(s, << "_" >>, "_", << "_" >>), "emphasis"),
        SpanRule(DelimitedMatch(s, << "*" >>, "*", << "*" >>), "emphasis"),
        SpanRule(DelimitedMatch(s, << "~", "~" >>, "~", << "~", "~" >>), "strikethrough"),
        LinkRule(BracketMatch(s, TRUE)),
        AutoLinkRule(AutoLinkMatch(s)),
        ImageRule(ImageMatch(s)) >>)

\* the while loop of parseInlineElements, from (remaining, position) to the returned nodes
InlineScan(remaining, position) ==
    LET Step(m) ==
            IF m.ok THEN
                (IF position > 0 THEN << TextNode(Slice(remaining, 1, position)) >> ELSE << >>)
                \o << m.node >>
                \o InlineScan(Slice(remaining, position + m.len + 1, Len(remaining)), 0)
            ELSE InlineScan(remaining, position + 1)
    IN  IF position >= Len(remaining) THEN
            IF Len(remaining) > 0 THEN << TextNode(remaining) >> ELSE << >>
        ELSE Step(InlineRule(Slice(remaining, position + 1, Len(remaining))))

parseInlineElements(text) == InlineScan(text, 0)

----------------------------------------------------------------------------
(* MarkdownParser: block-level constructs.  ls is this.lines. *)

Fence == << Backtick, Backtick, Backtick >>

\* the dot of a regular expression matches no line terminator
NoLineTerminator(s) == \A k \in 1..Len(s) : s[k] \notin {"\n", "\r"}

\* line.match(/^(#{1,6})\s+(.+)$/); h and w are the lengths of the # run and of the
\* whitespace run; \s+ gives back its last character when nothing else is left for (.+)
HeaderMatch(line) ==
    LET Captured(h, text) ==
            IF NoLineTerminator(text) THEN [ok |-> TRUE, level |-> h, text |-> text]
            ELSE NoMatch
        Spaces(h, w) ==
            IF h >= 1 /\ h <= 6 /\ w >= 1 /\ Len(line) - h >= 2
            THEN Captured(h, IF h + w < Len(line) THEN Slice(line, h + w + 1, Len(line))
                             ELSE Slice(line, Len(line), Len(line)))
            ELSE NoMatch
        Hashes(h) == Spaces(h, SpacesFrom(line, h + 1))
    IN  Hashes(RunFrom(line, 1, {"#"}))

\* trimmedLine.match(/^(-{3,}|\*{3,}|_{3,})$/)
ThematicBreakMatch(trimmed) ==
    /\ Len(trimmed) >= 3
    /\ \E c \in {"-", "*", "_"} : \A k \in 1..Len(trimmed) : trimmed[k] = c

\* trimmed.match(/^(\*|-|\+)\s+(.*)$/)
UnorderedMatch(trimmed) ==
    LET Captured(text) ==
            IF NoLineTerminator(text) THEN [ok |-> TRUE, text |-> text] ELSE NoMatch
        Spaces(w) ==
            IF Len(trimmed) >= 1 /\ trimmed[1] \in {"*", "-", "+"} /\ w >= 1
            THEN Captured(Slice(trimmed, w + 2, Len(trimmed)))
            ELSE NoMatch
    IN  Spaces(SpacesFrom(trimmed, 2))

\* trimmed.match(/^(\d+)[.)\]]\s+(.*)$/)
OrderedMatch(trimmed) ==
    LET Captured(d, text) ==
            IF NoLineTerminator(text)
            THEN [ok |-> TRUE, number |-> Slice(trimmed, 1, d), text |-> text]
            ELSE NoMatch
        Spaces(d, w) ==
            IF d >= 1 /\ Len(trimmed) > d /\ trimmed[d + 1] \in {".", ")", "]"} /\ w >= 1
            THEN Captured(d, Slice(trimmed, d + w + 2, Len(trimmed)))
            ELSE NoMatch
        Number(d) == Spaces(d, SpacesFrom(trimmed, d + 2))
    IN  Number(RunFrom(trimmed, 1, Digits))

\* trimmed.match(/^(\*|-|\+|\d+[.)\]])\s+/)
ListMatch(trimmed) ==
    LET Marker(m) == m > 0 /\ SpacesFrom(trimmed, m + 1) >= 1
        Number(d) ==
            Marker(IF Len(trimmed) >= 1 /\ trimmed[1] \in {"*", "-", "+"} THEN 1
                   ELSE IF d >= 1 /\ Len(trimmed) > d /\ trimmed[d + 1] \in {".", ")", "]"}
                   THEN d + 1
                   ELSE 0)
    IN  Number(RunFrom(trimmed, 1, Digits))

\* line.startsWith('  ') || line.startsWith('\t') || line.match(/^\s{2,}/)
IsIndented(line) ==
    \/ StartsWith(line, << " ", " " >>)
    \/ StartsWith(line, << "\t" >>)
    \/ SpacesFrom(line, 1) >= 2

RECURSIVE CodeEnd(_, _)
\* the while loop of parseCodeBlock from line index i: the index of the closing fence,
\* or ls.length when there is none
CodeEnd(ls, i) ==
    IF i >= Len(ls) \/ StartsWith(Trim(ls[i + 1]), Fence) THEN i ELSE CodeEnd(ls, i + 1)

parseCodeBlockTrimmed(ls, startIndex) ==
    LET Node(startLine, close) ==
            [type |-> "code_block",
             content |-> Join(TrimAll(Slice(ls, startIndex + 2, close)), << "\n" >>),
             attributes |-> [language |-> Slice(startLine, 4, 3 + RunFrom(startLine, 4, WordChars)),
                             endIndex |-> IF close < Len(ls) THEN close + 1 ELSE close]]
    IN  IF StartsWith(ls[startIndex + 1], Fence)
        THEN Node(ls[startIndex + 1], CodeEnd(ls, startIndex + 1))
        ELSE [type |-> "null"]

\* null is modelled as [type |-> "null"]
parseCodeBlock(ls, startIndex) ==
    LET Node(startLine, close) ==
            [type |-> "code_block",
             content |-> Join(Slice(ls, startIndex + 2, close), << "\n" >>),
             attributes |-> [language |-> Slice(startLine, 4, 3 + RunFrom(startLine, 4, WordChars)),
                             endIndex |-> IF close < Len(ls) THEN close + 1 ELSE close]]
    IN  IF StartsWith(ls[startIndex + 1], Fence)
        THEN Node(ls[startIndex + 1], CodeEnd(ls, startIndex + 1))
        ELSE [type |-> "null"]

RECURSIVE QuoteEnd(_, _)
\* the while loop of parseBlockquote from line index i: the index of the first line
\* that does not start with >
QuoteEnd(ls, i) ==
    IF i >= Len(ls) \/ ~StartsWith(Trim(ls[i + 1]), << ">" >>) THEN i ELSE QuoteEnd(ls, i + 1)

\* trimmed.replace(/^>\s?/, '')
StripQuoteMarker(trimmed) ==
    IF Len(trimmed) >= 2 /\ IsSpace(trimmed[2]) THEN Slice(trimmed, 3, Len(trimmed))
    ELSE Slice(trimmed, 2, Len(trimmed))

parseBlockquoteOfParagraph(ls, startIndex) ==
    LET Node(end) ==
            [type |-> "blockquote",
             children |-> << [type |-> "paragraph",
                              children |-> parseInlineElements(
                 Join([k \in 1..(end - startIndex) |-> StripQuoteMarker(Trim(ls[startIndex + k]))],
                      << "\n" >>))] >>,
             attributes |-> [endIndex |-> end]]
    IN  Node(QuoteEnd(ls, startIndex))

parseBlockquote(ls, startIndex) ==
    LET Node(end) ==
            [type |-> "blockquote",
             children |-> parseInlineElements(
                 Join([k \in 1..(end - startIndex) |-> StripQuoteMarker(Trim(ls[startIndex + k]))],
                      << "\n" >>)),
             attributes |-> [endIndex |-> end]]
    IN  Node(QuoteEnd(ls, startIndex))

ListItem(children) == [type |-> "list_item", children |-> children]

\* lastItem.children.push(extra...); parent also sets lastItem.attributes.parentItem
AppendAsItem(items, extra, parent) == Append(items, [type |-> "list_item", children |-> extra])

AppendToLast(items, extra, parent) ==
    [items EXCEPT ![Len(items)] =
        IF parent \/ "attributes" \in DOMAIN items[Len(items)]
        THEN [type |-> "list_item", children |-> items[Len(items)].children \o extra,
              attributes |-> [parentItem |-> TRUE]]
        ELSE ListItem(items[Len(items)].children \o extra)]

RECURSIVE ListScan(_, _, _, _, _)
\* the while loop of parseList from line index i; lastItem is the last element of items
\* and is null while items is empty
ListScan(ls, i, items, isOrdered, startNumber) ==
    LET Stop == [items |-> items, isOrdered |-> isOrdered, startNumber |-> startNumber,
                 endIndex |-> i]
        Step(trimmed, unorderedMatch, orderedMatch, isIndented) ==
            IF ~unorderedMatch.ok /\ ~orderedMatch.ok THEN
                IF isIndented /\ trimmed # << >> /\ Len(items) > 0 THEN
                    ListScan(ls, i + 1,
                             AppendToLast(items, << TextNode(<< "\n" >> \o trimmed) >>, FALSE),
                             isOrdered, startNumber)
                ELSE Stop
            ELSE IF orderedMatch.ok /\ ~isIndented THEN
                ListScan(ls, i + 1,
                         Append(items, ListItem(parseInlineElements(orderedMatch.text))),
                         TRUE,
                         IF Len(items) = 0 THEN ParseInt(orderedMatch.number) ELSE startNumber)
            ELSE IF unorderedMatch.ok /\ ~isIndented THEN
                ListScan(ls, i + 1,
                         Append(items, ListItem(parseInlineElements(unorderedMatch.text))),
                         IF Len(items) = 0 THEN FALSE ELSE isOrdered,
                         startNumber)
            ELSE IF Len(items) > 0 THEN
                ListScan(ls, i + 1,
                         AppendToLast(items,
                                      << TextNode(IF orderedMatch.ok
                                                  THEN << "\n" >> \o orderedMatch.number \o << " " >>
                                                  ELSE << "\n", "-", " " >>) >>
                                      \o parseInlineElements(IF orderedMatch.ok
                                                             THEN orderedMatch.text
                                                             ELSE unorderedMatch.text),
                                      TRUE),
                         isOrdered, startNumber)
            ELSE ListScan(ls, i + 1, items, isOrdered, startNumber)
        Line(line, trimmed) ==
            Step(trimmed, UnorderedMatch(trimmed), OrderedMatch(trimmed), IsIndented(line))
    IN  IF i >= Len(ls) THEN Stop ELSE Line(ls[i + 1], Trim(ls[i + 1]))

parseList(ls, startIndex) ==
    LET Node(r) ==
            [type |-> "list",
             children |-> r.items,
             attributes |-> IF r.isOrdered
                            THEN [ordered |-> TRUE, start |-> r.startNumber,
                                  endIndex |-> r.endIndex]
                            ELSE [ordered |-> FALSE, endIndex |-> r.endIndex]]
    IN  Node(ListScan(ls, startIndex, << >>, FALSE, 1))

\* secondLine.trim().match(/^\|?[\s\-:|]+\|?$/) !== null
SeparatorMatch(trimmed) ==
    /\ Len(trimmed) >= 1
    /\ \A k \in 1..Len(trimmed) : IsSpace(trimmed[k]) \/ trimmed[k] \in {"-", ":", "|"}

isTableStartAtPipe(ls, index) ==
    IF index + 1 >= Len(ls) THEN FALSE
    ELSE Includes(ls[index + 1], "|")

isTableStart(ls, index) ==
    IF index + 1 >= Len(ls) THEN FALSE
    ELSE Includes(ls[index + 1], "|") /\ SeparatorMatch(Trim(ls[index + 2]))

StripLeadingPipe(s) == IF StartsWith(s, << "|" >>) THEN Slice(s, 2, Len(s)) ELSE s

StripTrailingPipe(s) == IF EndsWith(s, << "|" >>) THEN Slice(s, 1, Len(s) - 1) ELSE s

parseTableRow(line) == TrimAll(Split(StripTrailingPipe(StripLeadingPipe(Trim(line))), "|"))

\* a table_row node for the cell texts of one line
TableRow(cells, isHeader) ==
    [type |-> "table_row",
     children |-> [k \in 1..Len(cells) |->
                      IF isHeader
                      THEN [type |-> "table_cell", children |-> parseInlineElements(cells[k]),
                            attributes |-> [isHeader |-> TRUE]]
                      ELSE [type |-> "table_cell", children |-> parseInlineElements(cells[k])]]]

RECURSIVE RowsEnd(_, _)
\* the while loop of parseTable from line index i: the index of the first line without a pipe
RowsEnd(ls, i) ==
    IF i >= Len(ls) \/ ~Includes(ls[i + 1], "|") THEN i ELSE RowsEnd(ls, i + 1)

parseTable(ls, startIndex) ==
    LET Node(end) ==
            [type |-> "table",
             children |-> << TableRow(parseTableRow(ls[startIndex + 1]), TRUE) >>
                          \o [k \in 1..(end - startIndex - 2) |->
                                 TableRow(parseTableRow(ls[startIndex + 2 + k]), FALSE)],
             attributes |-> [endIndex |-> end]]
    IN  Node(RowsEnd(ls, startIndex + 2))

\* the stop condition of the while loop of parseParagraph
ParagraphStop(ls, i) ==
    LET Stop(trimmed) ==
            \/ trimmed = << >>
            \/ StartsWith(trimmed, << "#" >>)
            \/ StartsWith(trimmed, Fence)
            \/ StartsWith(trimmed, << ">" >>)
            \/ ListMatch(trimmed)
            \/ ThematicBreakMatch(trimmed)
    IN  Stop(Trim(ls[i + 1])) \/ isTableStart(ls, i)

RECURSIVE ParagraphEnd(_, _)
\* the while loop of parseParagraph from line index i: the index of the line it stops at
ParagraphEnd(ls, i) ==
    IF i >= Len(ls) \/ ParagraphStop(ls, i) THEN i ELSE ParagraphEnd(ls, i + 1)

parseParagraph(ls, startIndex) ==
    LET Node(end) ==
            [type |-> "paragraph",
             children |-> parseInlineElements(Join(Slice(ls, startIndex + 1, end), << "\n" >>)),
             attributes |-> [endIndex |-> end]]
    IN  Node(ParagraphEnd(ls, startIndex))

\* the construct that one iteration of the while loop of parse() selects at line index i
LineClass(ls, i) ==
    LET Class(line, trimmedLine) ==
            IF trimmedLine = << >> THEN "blank"
            ELSE IF HeaderMatch(line).ok THEN "heading"
            ELSE IF ThematicBreakMatch(trimmedLine) THEN "thematic_break"
            ELSE IF StartsWith(trimmedLine, Fence) /\ parseCodeBlock(ls, i).type # "null"
                 THEN "code_block"
            ELSE IF StartsWith(trimmedLine, << ">" >>) THEN "blockquote"
            ELSE IF ListMatch(trimmedLine) THEN "list"
            ELSE IF isTableStart(ls, i) THEN "table"
            ELSE "paragraph"
    IN  Class(ls[i + 1], Trim(ls[i + 1]))

----------------------------------------------------------------------------
(* SlackBlockBuilder *)

DefaultMaxTableRows == 100
DefaultMaxTableColumns == 20

\* blocks.length > 50
BlockCountLimit == 50

DefaultMaxHeaderLength == 150

DefaultMaxSectionLength == 3000

DEFAULT_OPTIONS ==
    [expandSections |-> TRUE,
     maxHeaderLength |-> DefaultMaxHeaderLength,
     maxSectionLength |-> DefaultMaxSectionLength,
     maxTableRows |-> DefaultMaxTableRows,
     maxTableColumns |-> DefaultMaxTableColumns]

\* { ...a, ...b }: an options object is modelled as the function from the keys it
\* holds to their values, the empty object as << >>
SpreadFirstWins(a, b) ==
    [k \in DOMAIN a \cup DOMAIN b |-> IF k \in DOMAIN a THEN a[k] ELSE b[k]]

Spread(a, b) ==
    [k \in DOMAIN a \cup DOMAIN b |-> IF k \in DOMAIN b THEN b[k] ELSE a[k]]

\* this.options = { ...DEFAULT_OPTIONS, ...options } for the table caps given
TableCaps(rows, columns) ==
    [DEFAULT_OPTIONS EXCEPT !.maxTableRows = rows, !.maxTableColumns = columns]

Has(node, field) == field \in DOMAIN node

\* a style record is modelled as the set of its flags that are true
hasStyle(style) == style \cap {"bold", "italic", "strike", "code"} # {}

Space == [type |-> "text", text |-> << " " >>]

LineBreak == [type |-> "text", text |-> << "\n" >>]

Styled(element, style) ==
    IF hasStyle(style)
    THEN [k \in DOMAIN element \cup {"style"} |-> IF k = "style" THEN style ELSE element[k]]
    ELSE element

\* the link branch of buildRichTextElements
LinkElementUnstyled(node, currentStyle) ==
    IF node.content # node.attributes.href
    THEN [type |-> "link", url |-> node.attributes.href, text |-> node.content]
    ELSE [type |-> "link", url |-> node.attributes.href]

LinkElementWithText(node, currentStyle) ==
    Styled([type |-> "link", url |-> node.attributes.href, text |-> node.content],
           currentStyle)

LinkElement(node, currentStyle) ==
    LET url == IF Has(node, "attributes") /\ Has(node.attributes, "href")
               THEN node.attributes.href ELSE << >>
        linkElement == IF Has(node, "content") /\ node.content # << >> /\ node.content # url
                       THEN [type |-> "link", url |-> url, text |-> node.content]
                       ELSE [type |-> "link", url |-> url]
    IN  Styled(linkElement, currentStyle)

\* { ...currentStyle, flag: true }
ReplaceStyle(currentStyle, flag) == {flag}

MergeStyle(currentStyle, flag) == currentStyle \cup {flag}

RECURSIVE buildRichTextElements(_, _)
RECURSIVE BuildChildren(_, _)

\* for (const child of children) elements.push(...this.buildRichTextElements(child, style))
BuildChildren(children, style) ==
    IF children = << >> THEN << >>
    ELSE buildRichTextElements(Head(children), style) \o BuildChildren(Tail(children), style)

\* the branch shared by strong, emphasis and strikethrough
SpanElements(node, newStyle) ==
    IF Has(node, "children") THEN BuildChildren(node.children, newStyle)
    ELSE IF Has(node, "content") /\ node.content # << >>
    THEN << [type |-> "text", text |-> node.content, style |-> newStyle] >>
    ELSE << >>

buildRichTextElements(node, currentStyle) ==
    IF node.type = "text" THEN
        IF Has(node, "content") /\ node.content # << >>
        THEN << Styled([type |-> "text", text |-> node.content], currentStyle) >>
        ELSE << >>
    ELSE IF node.type = "strong" THEN SpanElements(node, MergeStyle(currentStyle, "bold"))
    ELSE IF node.type = "emphasis" THEN SpanElements(node, MergeStyle(currentStyle, "italic"))
    ELSE IF node.type = "strikethrough" THEN SpanElements(node, MergeStyle(currentStyle, "strike"))
    ELSE IF node.type = "code_inline" THEN
        << [type |-> "text",
            text |-> IF Has(node, "content") THEN node.content ELSE << >>,
            style |-> MergeStyle(currentStyle, "code")] >>
    ELSE IF node.type = "link" THEN << LinkElement(node, currentStyle) >>
    ELSE IF node.type = "image" THEN
        LET src == IF Has(node, "attributes") /\ Has(node.attributes, "src")
                   THEN node.attributes.src ELSE << >>
            alt == IF Has(node, "content") /\ node.content # << >> THEN node.content
                   ELSE << "I", "m", "a", "g", "e" >>
        IN  << IF alt # src THEN [type |-> "link", url |-> src, text |-> alt]
               ELSE [type |-> "link", url |-> src] >>
    ELSE IF node.type = "line_break" THEN << LineBreak >>
    ELSE IF Has(node, "children") THEN BuildChildren(node.children, currentStyle)
    ELSE IF Has(node, "content") /\ node.content # << >> THEN
        << IF hasStyle(currentStyle)
           THEN [type |-> "text", text |-> node.content,
                 style |-> (currentStyle \ {"bold"}) \cup
                           (IF Has(node, "attributes") /\ Has(node.attributes, "parentItem")
                               /\ node.attributes.parentItem
                            THEN {"bold"} ELSE {})]
           ELSE [type |-> "text", text |-> node.content] >>
    ELSE << >>

KeepEmpty(elements) == elements

OrSpace(elements) == IF Len(elements) > 0 THEN elements ELSE << Space >>

\* pending is this.currentRichTextElements at the time of the call
buildHeadingUnstyled(node, pending) ==
    [type |-> "rich_text_section",
     elements |-> buildRichTextElements(node, {})
                  \o (IF node.attributes.level <= 2 THEN << LineBreak >> ELSE << >>)]

buildHeadingAlwaysSeparated(node, pending) ==
    [type |-> "rich_text_section",
     elements |-> << LineBreak >> \o buildRichTextElements(node, {"bold"}) \o << LineBreak >>]

buildHeadingAsRichText(node, pending) ==
    LET Section(elements, level) ==
            [type |-> "rich_text_section",
             elements |-> OrSpace(IF level = 1 \/ level = 2
                                  THEN (IF Len(pending) > 0 THEN << LineBreak >> ELSE << >>)
                                       \o elements \o << LineBreak >>
                                  ELSE elements)]
    IN  Section(buildRichTextElements(node, {"bold"}),
                IF Has(node, "attributes") /\ Has(node.attributes, "level")
                   /\ node.attributes.level # 0
                THEN node.attributes.level ELSE 1)

buildDividerBlock == [type |-> "divider"]

buildRichTextSection(node) ==
    [type |-> "rich_text_section", elements |-> OrSpace(buildRichTextElements(node, {}))]

buildRichTextPreformatted(node) ==
    [type |-> "rich_text_preformatted",
     elements |-> << [type |-> "text",
                      text |-> IF Has(node, "content") THEN node.content ELSE << >>] >>]

buildRichTextQuote(node) ==
    [type |-> "rich_text_quote", elements |-> OrSpace(buildRichTextElements(node, {}))]

RECURSIVE ListSections(_)
ListSections(items) ==
    IF items = << >> THEN << >>
    ELSE (IF Head(items).type = "list_item"
          THEN << [type |-> "rich_text_section",
                   elements |-> OrSpace(buildRichTextElements(Head(items), {}))] >>
          ELSE << >>)
         \o ListSections(Tail(items))

buildRichTextListFromOne(node) ==
    LET List(isOrdered, startNumber, sections) ==
            IF isOrdered /\ startNumber >= 1
            THEN [type |-> "rich_text_list", style |-> "ordered", elements |-> sections,
                  offset |-> startNumber - 1]
            ELSE [type |-> "rich_text_list", style |-> IF isOrdered THEN "ordered" ELSE "bullet",
                  elements |-> sections]
    IN  List(Has(node, "attributes") /\ Has(node.attributes, "ordered") /\ node.attributes.ordered,
             IF Has(node, "attributes") /\ Has(node.attributes, "start")
                /\ node.attributes.start # 0
             THEN node.attributes.start ELSE 1,
             IF Has(node, "children") THEN ListSections(node.children) ELSE << >>)

\* called with the default indent 0, which sets no indent field
buildRichTextList(node) ==
    LET List(isOrdered, startNumber, sections) ==
            IF isOrdered /\ startNumber > 1
            THEN [type |-> "rich_text_list", style |-> "ordered", elements |-> sections,
                  offset |-> startNumber - 1]
            ELSE [type |-> "rich_text_list", style |-> IF isOrdered THEN "ordered" ELSE "bullet",
                  elements |-> sections]
    IN  List(Has(node, "attributes") /\ Has(node.attributes, "ordered") /\ node.attributes.ordered,
             IF Has(node, "attributes") /\ Has(node.attributes, "start")
                /\ node.attributes.start # 0
             THEN node.attributes.start ELSE 1,
             IF Has(node, "children") THEN ListSections(node.children) ELSE << >>)

\* the elements to append to currentRichTextElements; null is the empty sequence
buildRichTextElement(node, pending) ==
    IF node.type = "heading" THEN << buildHeadingAsRichText(node, pending) >>
    ELSE IF node.type = "paragraph" THEN << buildRichTextSection(node) >>
    ELSE IF node.type = "code_block" THEN << buildRichTextPreformatted(node) >>
    ELSE IF node.type = "blockquote" THEN << buildRichTextQuote(node) >>
    ELSE IF node.type = "list" THEN << buildRichTextList(node) >>
    ELSE << >>

\* Math.min(node.children.length, this.options.maxTableRows)
RowLimitUncapped(count, maxTableRows) == count

RowLimit(count, maxTableRows) == Min(count, maxTableRows)

\* Math.min(rowNode.children.length, this.options.maxTableColumns)
CellLimitInclusive(count, maxTableColumns) == Min(count, maxTableColumns + 1)

CellLimit(count, maxTableColumns) == Min(count, maxTableColumns)

\* the cells of one emitted row: the inner for loop of buildTableBlock
TableCells(rowNode, maxTableColumns) ==
    [j \in 1..CellLimit(Len(rowNode.children), maxTableColumns) |->
        [type |-> "rich_text",
         elements |-> << [type |-> "rich_text_section",
                          elements |-> OrSpace(buildRichTextElements(rowNode.children[j], {}))] >>]]

RECURSIVE TableRows(_, _, _, _)
\* the outer for loop of buildTableBlock over node.children[i], 1 <= i <= limit
TableRows(children, i, limit, maxTableColumns) ==
    IF i > limit THEN << >>
    ELSE (IF children[i].type = "table_row" /\ Has(children[i], "children")
          THEN << TableCells(children[i], maxTableColumns) >>
          ELSE << >>)
         \o TableRows(children, i + 1, limit, maxTableColumns)

\* maxColumns = Math.max(maxColumns, cells.length) over the emitted rows
MaxRowLenHeader(rows) == IF rows = << >> THEN 0 ELSE Len(Head(rows))

RECURSIVE MaxRowLen(_)
MaxRowLen(rows) == IF rows = << >> THEN 0 ELSE Max(Len(Head(rows)), MaxRowLen(Tail(rows)))

\* null is modelled as [type |-> "null"]
buildTableBlockWithinSection(node, opts) ==
    LET Block(rows, maxColumns) ==
            IF Len(rows) = 0 THEN [type |-> "null"]
            ELSE [type |-> "table", rows |-> rows,
                  column_settings |-> [k \in 1..maxColumns |-> [is_wrapped |-> TRUE]]]
        Rows(rows) == Block(rows, MaxRowLen(rows))
    IN  Rows(IF Has(node, "children")
             THEN TableRows(node.children, 1,
                            RowLimit(Len(node.children),
                                     Min(opts.maxTableRows, opts.maxSectionLength)),
                            opts.maxTableColumns)
             ELSE << >>)

buildTableBlock(node, opts) ==
    LET Block(rows, maxColumns) ==
            IF Len(rows) = 0 THEN [type |-> "null"]
            ELSE [type |-> "table", rows |-> rows,
                  column_settings |-> [k \in 1..maxColumns |-> [is_wrapped |-> TRUE]]]
        Rows(rows) == Block(rows, MaxRowLen(rows))
    IN  Rows(IF Has(node, "children")
             THEN TableRows(node.children, 1, RowLimit(Len(node.children), opts.maxTableRows),
                            opts.maxTableColumns)
             ELSE << >>)

\* the block list after flushRichTextElements(blocks); the field is emptied by the caller
flushSeparately(blks, pending) ==
    blks \o [k \in 1..Len(pending) |-> [type |-> "rich_text", elements |-> << pending[k] >>]]

flushRichTextElements(blks, pending) ==
    IF Len(pending) > 0 THEN Append(blks, [type |-> "rich_text", elements |-> pending])
    ELSE blks

----------------------------------------------------------------------------
(* Inputs *)

\* one line of each class the block-level scan distinguishes
LineVocabulary ==
    { << >>,                                \* blank
      << "#", " ", "h" >>,                  \* heading
      << "#", "h" >>,                       \* starts with #, no heading
      << "-", "-", "-" >>,                  \* thematic break
      Fence,                                \* fence
      << " " >> \o Fence,                   \* fence after leading whitespace
      << ">", "q" >>,                       \* blockquote
      << "-", " ", "i" >>,                  \* list item
      << " ", " ", "-", " ", "j" >>,        \* indented list item
      << "a", "|", "b" >>,                  \* line with a pipe
      << "|", "-", "|" >>,                  \* table separator
      << "p" >> }                           \* plain text

LineInputs == UNION { [1..n -> LineVocabulary] : n \in 1..MaxLines }

\* groups of lines from which documents with several tables are put together
ChunkVocabulary ==
    { << << "a", "|", "b" >>, << "|", "-", "|" >>, << >> >>,
      << << "c", "|", "d" >>, << "-", "-", "-" >>, << "f", "|" >>,
         << "|", "g", "|", "h", "|", "i", "|" >>, << "p" >> >>,
      << << "t" >> >>,
      << << "#", "#", " ", "h" >> >>,
      << << "#", "#", "#", " ", "h" >> >>,
      << << "*", "*", "*" >>, << "1", ".", " ", "n" >> >> }

RECURSIVE Flatten(_)
Flatten(chunks) == IF chunks = << >> THEN << >> ELSE Head(chunks) \o Flatten(Tail(chunks))

ChunkInputs == { Flatten(cs) : cs \in UNION { [1..n -> ChunkVocabulary] : n \in 1..MaxChunks } }

\* pieces of inline text: plain text, inline code, a link with text, a link without
\* text, a link whose text is its target, an autolink, an image, nested spans
InlinePieces ==
    { << "t" >>,
      << Backtick, "c", Backtick >>,
      << "[", "x", "]", "(", "u", ")" >>,
      << "[", "]", "(", "u", ")" >>,
      << "[", "u", "]", "(", "u", ")" >>,
      << "<", "h", "t", "t", "p", ":", "/", "/", "u", ">" >>,
      << "!", "[", "a", "]", "(", "u", ")" >>,
      << "_", "~", "~", "s", "~", "~", "_" >> }

\* one-line texts: a paragraph or a heading whose text is a run of inline pieces,
\* bare or enclosed in a bold span
InlineInputs ==
    { << prefix \o wrap \o Flatten(pieces) \o wrap >> :
        prefix \in { << >>, << "#", " " >>, << "#", "#", "#", " " >> },
        wrap \in { << >>, << "*", "*" >> },
        pieces \in UNION { [1..n -> InlinePieces] : n \in 1..MaxPieces } }

\* the lines a list is made of: a bullet item, an ordered item, an indented bullet
\* line, an indented ordered line and indented plain text
ListVocabulary ==
    { << "-", " ", "i" >>,
      << "2", ".", " ", "n" >>,
      << " ", " ", "-", " ", "j" >>,
      << " ", " ", "7", ")", " ", "k" >>,
      << " ", " ", "c" >> }

ListInputs == UNION { [1..n -> ListVocabulary] : n \in 1..MaxListLines }

\* item lines with the numerals 0, 1, 2 and 10 and each separator, and a bullet item
NumberedVocabulary ==
    { << "0", ".", " ", "z" >>,
      << "1", ")", " ", "a" >>,
      << "2", ".", " ", "n" >>,
      << "1", "0", "]", " ", "t" >>,
      << "-", " ", "i" >> }

\* lists of one or two such lines
NumberedInputs == UNION { [1..n -> NumberedVocabulary] : n \in {1, 2} }

\* an option setting that differs from the defaults in the three options other than
\* the table caps, with lengths below those of the texts tried
ShortLengths ==
    [DEFAULT_OPTIONS EXCEPT !.expandSections = FALSE, !.maxHeaderLength = 1,
                            !.maxSectionLength = 1]

\* option settings tried on the documents with tables: the defaults, caps that cut
\* rows or cells, a column cap of zero and row caps of zero and below
TableOptions ==
    { DEFAULT_OPTIONS,
      TableCaps(1, DefaultMaxTableColumns),
      TableCaps(2, 2),
      TableCaps(3, 2),
      TableCaps(DefaultMaxTableRows, 0),
      TableCaps(0, 1),
      TableCaps(-1, DefaultMaxTableColumns),
      ShortLengths }

\* top-level nodes of trees handed to the builder directly
TreeVocabulary ==
    { [type |-> "paragraph", children |-> << TextNode(<< "p" >>) >>],
      [type |-> "heading", children |-> << TextNode(<< "h" >>) >>, attributes |-> [level |-> 1]],
      [type |-> "thematic_break"],
      [type |-> "table"],
      [type |-> "table", children |-> << [type |-> "table_row"] >>],
      parseTable(<< << "a", "|", "b" >>, << "|", "-", "|" >> >>, 0) }

TreeInputs == UNION { [1..n -> TreeVocabulary] : n \in 1..MaxTreeNodes }

TreeOptions == { DEFAULT_OPTIONS, TableCaps(0, 1) }

\* nodes without inline content: no children and no content
EmptyNodes ==
    { [type |-> "paragraph"],
      [type |-> "heading", attributes |-> [level |-> 1]],
      [type |-> "heading", attributes |-> [level |-> 3]],
      [type |-> "blockquote"],
      [type |-> "list", children |-> << [type |-> "list_item"] >>,
       attributes |-> [ordered |-> FALSE]],
      [type |-> "table",
       children |-> << [type |-> "table_row", children |-> << [type |-> "table_cell"] >>] >>] }

\* hand-built trees of one or two such nodes
SparseTrees == UNION { [1..n -> EmptyNodes] : n \in {1, 2} }

\* trees given to a builder that is used for several calls: one that starts with a
\* heading, one that ends with pending rich text, one with two tables
ReuseTrees ==
    { << [type |-> "heading", children |-> << TextNode(<< "h" >>) >>,
          attributes |-> [level |-> 1]] >>,
      << [type |-> "thematic_break"],
         [type |-> "paragraph", children |-> << TextNode(<< "p" >>) >>] >>,
      << parseTable(<< << "a", "|", "b" >>, << "|", "-", "|" >> >>, 0),
         [type |-> "heading", children |-> << TextNode(<< "h" >>) >>,
          attributes |-> [level |-> 2]],
         parseTable(<< << "a", "|", "b" >>, << "|", "-", "|" >> >>, 0) >> }

\* markdown around the block count at which a warning is given, with and without a table
MetadataInputs ==
    LET Dividers(n) == [k \in 1..n |-> << "-", "-", "-" >>]
        Table == << << "a", "|", "b" >>, << "|", "-", "|" >> >>
    IN  { Dividers(BlockCountLimit), Dividers(BlockCountLimit + 1),
          Table \o Dividers(BlockCountLimit - 1), Table \o Dividers(BlockCountLimit),
          << << "p" >> >> }

\* null and undefined
Null == [type |-> "null"]

\* options a MarkdownConverter is constructed with, and options given to setOptions
ConstructorOptions == { << >>, [expandSections |-> FALSE, maxTableRows |-> 2] }

SetOptionsArguments ==
    { [maxTableRows |-> 1], [expandSections |-> TRUE, maxTableColumns |-> 1] }

\* markdown given to the convert methods of a MarkdownConverter
ConverterInputs ==
    { << << "a", "|", "b" >>, << "|", "-", "|" >>, << "c", "|", "d" >>,
         << "e", "|", "f" >> >> }

\* the value the caller of getOptions writes into the object it got
ChangedOptions == [maxTableRows |-> 0]

----------------------------------------------------------------------------
(* State machine *)

Init ==
    /\ \/ /\ origin = "text"
          /\ \/ lines \in LineInputs /\ options = DEFAULT_OPTIONS
             \/ lines \in InlineInputs /\ options \in {DEFAULT_OPTIONS, ShortLengths}
             \/ lines \in ListInputs \cup NumberedInputs /\ options = DEFAULT_OPTIONS
             \/ lines \in ChunkInputs /\ options \in TableOptions
          /\ pc = "parse"
          /\ document = << >>
       \/ /\ origin = "tree"
          /\ lines = << >>
          /\ \/ document \in TreeInputs /\ options \in TreeOptions
             \/ document \in SparseTrees /\ options = DEFAULT_OPTIONS
          /\ pc = "parsed"
       \/ /\ origin = "reuse"
          /\ lines = << >>
          /\ options = DEFAULT_OPTIONS
          /\ pc = "parsed"
          /\ document = << >>
       \/ /\ origin = "metadata"
          /\ lines \in MetadataInputs
          /\ options = DEFAULT_OPTIONS
          /\ pc = "parse"
          /\ document = << >>
       \/ /\ origin = "converter"
          /\ lines = << >>
          /\ options = DEFAULT_OPTIONS
          /\ pc = "ready"
          /\ document = << >>
    /\ currentIndex = 0
    /\ childIndex = 0
    /\ currentRichTextElements = << >>
    /\ blocks = << >>
    /\ blockArrays = << >>
    /\ currentBlocks = << >>
    /\ tableCount = 0
    /\ arrayId = 0
    /\ held = {}
    /\ calls = << >>
    /\ output = Null
    /\ IF origin = "converter"
       THEN \E given \in ConstructorOptions :
                converter = [options |-> given,      \* this.options
                             object |-> 0,           \* identity of the object this.options refers to
                             objects |-> 1,          \* objects created so far
                             given |-> << given >>,  \* the constructor options, then each argument of setOptions
                             methods |-> << >>]      \* the methods called so far
       ELSE converter = Null

\* the variables of the functions and of the class around the parser and the builder
wrapperVars == << output, converter >>

builderVars == << childIndex, currentRichTextElements, blocks, blockArrays, currentBlocks,
                  tableCount, arrayId, held, calls, wrapperVars >>

\* parse(): one iteration of the while loop standing at a line of class class
AtLine(class) ==
    /\ pc = "parse"
    /\ currentIndex < Len(lines)
    /\ LineClass(lines, currentIndex) = class

\* document.children.push(node); currentIndex = node.attributes.endIndex
PushNode(node) ==
    /\ document' = Append(document, node)
    /\ currentIndex' = node.attributes.endIndex
    /\ UNCHANGED << origin, lines, options, pc, builderVars >>

SkipEmptyLine ==
    /\ AtLine("blank")
    /\ currentIndex' = currentIndex + 1
    /\ UNCHANGED << origin, lines, options, pc, document, builderVars >>

ParseHeading ==
    /\ AtLine("heading")
    /\ LET Push(headerMatch) ==
               document' = Append(document, [type |-> "heading",
                                             children |-> parseInlineElements(headerMatch.text),
                                             attributes |-> [level |-> headerMatch.level]])
       IN  Push(HeaderMatch(lines[currentIndex + 1]))
    /\ currentIndex' = currentIndex + 1
    /\ UNCHANGED << origin, lines, options, pc, builderVars >>

ParseThematicBreak ==
    /\ AtLine("thematic_break")
    /\ document' = Append(document, [type |-> "thematic_break"])
    /\ currentIndex' = currentIndex + 1
    /\ UNCHANGED << origin, lines, options, pc, builderVars >>

ParseCodeBlock ==
    /\ AtLine("code_block")
    /\ PushNode(parseCodeBlock(lines, currentIndex))

ParseBlockquote ==
    /\ AtLine("blockquote")
    /\ PushNode(parseBlockquote(lines, currentIndex))

ParseList ==
    /\ AtLine("list")
    /\ PushNode(parseList(lines, currentIndex))

ParseTable ==
    /\ AtLine("table")
    /\ PushNode(parseTable(lines, currentIndex))

\* the document is capped at MaxDocNodes nodes: the loop can stand still here
ParseParagraph ==
    /\ AtLine("paragraph")
    /\ Len(document) < MaxDocNodes
    /\ PushNode(parseParagraph(lines, currentIndex))

ParseReturn ==
    /\ pc = "parse"
    /\ currentIndex >= Len(lines)
    /\ pc' = "parsed"
    /\ UNCHANGED << origin, lines, options, currentIndex, document, builderVars >>

\* buildBlocks(): the child the for loop stands at
Child == document[childIndex + 1]

\* the positions at which no build call is running
Idle == {"parsed", "built", "done"}

\* the tree a build call is made on: the one tree of the conversion, in its fixed order
\* of calls, or any of ReuseTrees in any order of calls on a reused builder
\* the method of the builder that the function behind a method of the converter calls
BuilderMethod(method) ==
    IF method = "convertMultiple" THEN "buildBlocksMultiple" ELSE "buildBlocks"

CallOn(from) ==
    \/ origin \notin {"reuse", "converter"} /\ pc = from /\ document' = document
    \/ origin = "reuse" /\ pc \in Idle /\ Len(calls) < MaxCalls /\ document' \in ReuseTrees
    \/ /\ origin = "converter"
       /\ pc = "parsed"
       /\ BuilderMethod(converter.methods[Len(converter.methods)])
          = (IF from = "parsed" THEN "buildBlocks" ELSE "buildBlocksMultiple")
       /\ document' = document

\* this.currentRichTextElements = []: the field refers to a new array object
NewArray(id) == id + 1

\* the array object the field refers to after flushRichTextElements
ArrayReused(id, pending) == id

ArrayAfterFlush(id, pending) == IF Len(pending) > 0 THEN NewArray(id) ELSE id

\* flushRichTextElements: the pushed block holds the array object of the field
FlushArray ==
    /\ arrayId' = ArrayAfterFlush(arrayId, currentRichTextElements)
    /\ held' = IF Len(currentRichTextElements) > 0 THEN held \cup {arrayId} ELSE held

\* return of a build method
Returned(method, result) ==
    calls' = Append(calls, [method |-> method, tree |-> document, result |-> result])

BuildBlocksStart ==
    /\ CallOn("parsed")
    /\ pc' = "buildBlocks"
    /\ blocks' = << >>
    /\ currentRichTextElements' = << >>
    /\ arrayId' = NewArray(arrayId)
    /\ childIndex' = 0
    /\ UNCHANGED << origin, lines, options, currentIndex, blockArrays, currentBlocks,
                    tableCount, held, calls >>
    /\ UNCHANGED wrapperVars

BuildBlocksDivider ==
    /\ pc = "buildBlocks"
    /\ childIndex < Len(document)
    /\ Child.type = "thematic_break"
    /\ blocks' = Append(flushRichTextElements(blocks, currentRichTextElements),
                        buildDividerBlock)
    /\ currentRichTextElements' = << >>
    /\ FlushArray
    /\ childIndex' = childIndex + 1
    /\ UNCHANGED << origin, lines, options, pc, currentIndex, document, blockArrays,
                    currentBlocks, tableCount, calls >>
    /\ UNCHANGED wrapperVars

BuildBlocksTable ==
    /\ pc = "buildBlocks"
    /\ childIndex < Len(document)
    /\ Child.type = "table"
    /\ LET Push(flushed, tableBlock) ==
               blocks' = IF tableBlock.type # "null" THEN Append(flushed, tableBlock) ELSE flushed
       IN  Push(flushRichTextElements(blocks, currentRichTextElements),
                buildTableBlock(Child, options))
    /\ currentRichTextElements' = << >>
    /\ FlushArray
    /\ childIndex' = childIndex + 1
    /\ UNCHANGED << origin, lines, options, pc, currentIndex, document, blockArrays,
                    currentBlocks, tableCount, calls >>
    /\ UNCHANGED wrapperVars

BuildBlocksRichText ==
    /\ pc = "buildBlocks"
    /\ childIndex < Len(document)
    /\ Child.type \notin {"thematic_break", "table"}
    /\ currentRichTextElements' =
           currentRichTextElements \o buildRichTextElement(Child, currentRichTextElements)
    /\ childIndex' = childIndex + 1
    /\ UNCHANGED << origin, lines, options, pc, currentIndex, document, blocks, blockArrays,
                    currentBlocks, tableCount, arrayId, held, calls >>
    /\ UNCHANGED wrapperVars

BuildBlocksReturn ==
    /\ pc = "buildBlocks"
    /\ childIndex >= Len(document)
    /\ blocks' = flushRichTextElements(blocks, currentRichTextElements)
    /\ currentRichTextElements' = << >>
    /\ FlushArray
    /\ Returned("buildBlocks", blocks')
    /\ pc' = "built"
    /\ UNCHANGED << origin, lines, options, currentIndex, document, childIndex, blockArrays,
                    currentBlocks, tableCount >>
    /\ UNCHANGED wrapperVars

BuildBlocksMultipleStart ==
    /\ origin # "metadata"
    /\ CallOn("built")
    /\ pc' = "buildBlocksMultiple"
    /\ blockArrays' = << >>
    /\ currentBlocks' = << >>
    /\ tableCount' = 0
    /\ currentRichTextElements' = << >>
    /\ arrayId' = NewArray(arrayId)
    /\ childIndex' = 0
    /\ UNCHANGED << origin, lines, options, currentIndex, blocks, held, calls >>
    /\ UNCHANGED wrapperVars

BuildBlocksMultipleDivider ==
    /\ pc = "buildBlocksMultiple"
    /\ childIndex < Len(document)
    /\ Child.type = "thematic_break"
    /\ currentBlocks' = Append(flushRichTextElements(currentBlocks, currentRichTextElements),
                               buildDividerBlock)
    /\ currentRichTextElements' = << >>
    /\ FlushArray
    /\ childIndex' = childIndex + 1
    /\ UNCHANGED << origin, lines, options, pc, currentIndex, document, blocks, blockArrays,
                    tableCount, calls >>
    /\ UNCHANGED wrapperVars

\* whether the table branch closes the current group: tableCount > 0
ClosesGroupLate(count) == count > 1

ClosesGroupAlways(count) == count >= 0

ClosesGroup(count) == count > 0

\* if (currentBlocks.length > 0) blockArrays.push(currentBlocks)
CloseGroupOverwrite(arrays, group) == IF Len(group) > 0 THEN << group >> ELSE arrays

CloseGroupUnchecked(arrays, group) == Append(arrays, group)

CloseGroup(arrays, group) == IF Len(group) > 0 THEN Append(arrays, group) ELSE arrays

\* the body of if (tableCount > 0): flush into the current group, close it, start a new one
SplitGroupKeepPending(arrays, group, pending) ==
    [arrays |-> CloseGroup(arrays, group), group |-> << >>, pending |-> pending]

SplitGroupDropPending(arrays, group, pending) ==
    [arrays |-> CloseGroup(arrays, group), group |-> << >>, pending |-> << >>]

SplitGroup(arrays, group, pending) ==
    [arrays |-> CloseGroup(arrays, flushRichTextElements(group, pending)),
     group |-> << >>,
     pending |-> << >>]

\* blocks.push(tableBlock) under if (tableBlock)
PushTable(blks, tableBlock) ==
    IF tableBlock.type # "null" THEN Append(blks, tableBlock) ELSE blks

\* the for loop of buildBlocks over the children not yet visited, then the final flush
RECURSIVE BlocksFrom(_, _, _, _)
BlocksFrom(children, blks, pending, opts) ==
    IF children = << >> THEN flushRichTextElements(blks, pending)
    ELSE IF Head(children).type = "thematic_break"
    THEN BlocksFrom(Tail(children),
                    Append(flushRichTextElements(blks, pending), buildDividerBlock),
                    << >>, opts)
    ELSE IF Head(children).type = "table"
    THEN BlocksFrom(Tail(children),
                    PushTable(flushRichTextElements(blks, pending),
                              buildTableBlock(Head(children), opts)),
                    << >>, opts)
    ELSE BlocksFrom(Tail(children), blks,
                    pending \o buildRichTextElement(Head(children), pending), opts)

\* what buildBlocks returns for the children of a root node on an instance whose
\* accumulator is empty
buildBlocks(children, opts) == BlocksFrom(children, << >>, << >>, opts)

\* the for loop of buildBlocksMultiple over the children not yet visited, then the
\* final flush and the closing of the last group
RECURSIVE BlockArraysFrom(_, _, _, _, _, _)
BlockArraysFrom(children, arrays, group, count, pending, opts) ==
    IF children = << >>
    THEN LET Finish(closed) == IF Len(closed) = 0 THEN << << >> >> ELSE closed
         IN  Finish(CloseGroup(arrays, flushRichTextElements(group, pending)))
    ELSE IF Head(children).type = "thematic_break"
    THEN BlockArraysFrom(Tail(children), arrays,
                         Append(flushRichTextElements(group, pending), buildDividerBlock),
                         count, << >>, opts)
    ELSE IF Head(children).type = "table"
    THEN LET Push(split, g, tableBlock) ==
                 BlockArraysFrom(Tail(children), g.arrays,
                                 PushTable(flushRichTextElements(g.group, g.pending),
                                           tableBlock),
                                 (IF split THEN 0 ELSE count)
                                 + (IF tableBlock.type # "null" THEN 1 ELSE 0),
                                 << >>, opts)
         IN  Push(ClosesGroup(count),
                  IF ClosesGroup(count) THEN SplitGroup(arrays, group, pending)
                  ELSE [arrays |-> arrays, group |-> group, pending |-> pending],
                  buildTableBlock(Head(children), opts))
    ELSE BlockArraysFrom(Tail(children), arrays, group, count,
                         pending \o buildRichTextElement(Head(children), pending), opts)

\* what buildBlocksMultiple returns for the children of a root node on an instance
\* whose accumulator is empty
buildBlocksMultiple(children, opts) ==
    BlockArraysFrom(children, << >>, << >>, 0, << >>, opts)

BuildBlocksMultipleTable ==
    /\ pc = "buildBlocksMultiple"
    /\ childIndex < Len(document)
    /\ Child.type = "table"
    /\ LET \* g: blockArrays, currentBlocks and the pending elements after if (tableCount > 0)
           Push(split, g, tableBlock) ==
               /\ blockArrays' = g.arrays
               /\ currentBlocks' = flushRichTextElements(g.group, g.pending)
                                   \o (IF tableBlock.type # "null" THEN << tableBlock >>
                                       ELSE << >>)
               /\ tableCount' = (IF split THEN 0 ELSE tableCount)
                                + (IF tableBlock.type # "null" THEN 1 ELSE 0)
       IN  Push(ClosesGroup(tableCount),
                IF ClosesGroup(tableCount)
                THEN SplitGroup(blockArrays, currentBlocks, currentRichTextElements)
                ELSE [arrays |-> blockArrays, group |-> currentBlocks,
                      pending |-> currentRichTextElements],
                buildTableBlock(Child, options))
    /\ currentRichTextElements' = << >>
    /\ FlushArray
    /\ childIndex' = childIndex + 1
    /\ UNCHANGED << origin, lines, options, pc, currentIndex, document, blocks, calls >>
    /\ UNCHANGED wrapperVars

BuildBlocksMultipleRichText ==
    /\ pc = "buildBlocksMultiple"
    /\ childIndex < Len(document)
    /\ Child.type \notin {"thematic_break", "table"}
    /\ currentRichTextElements' =
           currentRichTextElements \o buildRichTextElement(Child, currentRichTextElements)
    /\ childIndex' = childIndex + 1
    /\ UNCHANGED << origin, lines, options, pc, currentIndex, document, blocks, blockArrays,
                    currentBlocks, tableCount, arrayId, held, calls >>
    /\ UNCHANGED wrapperVars

BuildBlocksMultipleReturn ==
    /\ pc = "buildBlocksMultiple"
    /\ childIndex >= Len(document)
    /\ LET Finish(flushed, arrays) ==
               /\ currentBlocks' = flushed
               /\ blockArrays' = IF Len(arrays) = 0 THEN << << >> >> ELSE arrays
           Flush(flushed) == Finish(flushed, CloseGroup(blockArrays, flushed))
       IN  Flush(flushRichTextElements(currentBlocks, currentRichTextElements))
    /\ currentRichTextElements' = << >>
    /\ FlushArray
    /\ Returned("buildBlocksMultiple", blockArrays')
    /\ pc' = "done"
    /\ UNCHANGED << origin, lines, options, currentIndex, document, childIndex, blocks,
                    tableCount >>
    /\ UNCHANGED wrapperVars

\* the warnings of markdownToSlackBlocksWithMetadata; a warning is modelled by its kind
\* and, for the block count, by the count its text holds
WarningsFromLimit(blks) ==
    (IF Len(blks) >= BlockCountLimit
     THEN << [kind |-> "block_count", count |-> Len(blks)] >> ELSE << >>)
    \o (IF \E k \in 1..Len(blks) : blks[k].type = "table"
        THEN << [kind |-> "table"] >> ELSE << >>)

Warnings(blks) ==
    (IF Len(blks) > BlockCountLimit
     THEN << [kind |-> "block_count", count |-> Len(blks)] >> ELSE << >>)
    \o (IF \E k \in 1..Len(blks) : blks[k].type = "table"
        THEN << [kind |-> "table"] >> ELSE << >>)

\* the object markdownToSlackBlocksWithMetadata returns for the blocks of
\* markdownToSlackBlocks; warnings: undefined is modelled as a record without warnings
MetadataResult(blks) ==
    LET Result(warnings) ==
            IF Len(warnings) > 0 THEN [blocks |-> blks, warnings |-> warnings]
            ELSE [blocks |-> blks]
    IN  Result(Warnings(blks))

\* JSON.parse(JSON.stringify(blocks)): the blocks of the model are made of records,
\* sequences, strings, numbers and booleans and hold no undefined value, so the copy is
\* equal to them value by value
JsonCopy(blks) == blks

\* the caller is between two calls on the converter and may make one more
Ready == origin = "converter" /\ pc = "ready" /\ Len(converter.methods) < MaxCalls

\* the last method called on the converter is running
Running(method) ==
    /\ origin = "converter"
    /\ Len(converter.methods) > 0
    /\ converter.methods[Len(converter.methods)] = method

\* a convert method calls its function with (markdown, this.options): a new parser on
\* the markdown and a new builder with { ...DEFAULT_OPTIONS, ...this.options }
StartConversion(method) ==
    /\ Ready
    /\ lines' \in ConverterInputs
    /\ options' = Spread(DEFAULT_OPTIONS, converter.options)
    /\ converter' = [converter EXCEPT !.methods = Append(@, method)]
    /\ pc' = "parse"
    /\ currentIndex' = 0
    /\ document' = << >>
    /\ childIndex' = 0
    /\ currentRichTextElements' = << >>
    /\ blocks' = << >>
    /\ blockArrays' = << >>
    /\ currentBlocks' = << >>
    /\ tableCount' = 0
    /\ arrayId' = 0
    /\ held' = {}
    /\ calls' = << >>
    /\ output' = Null
    /\ UNCHANGED origin

\* a convert method returns what its function returned
FinishConversion(method, from, value) ==
    /\ Running(method)
    /\ pc = from
    /\ output' = value
    /\ pc' = "ready"
    /\ UNCHANGED << origin, lines, options, currentIndex, document, childIndex,
                    currentRichTextElements, blocks, blockArrays, currentBlocks, tableCount,
                    arrayId, held, calls, converter >>

Convert == StartConversion("convert")

ConvertReturn == FinishConversion("convert", "built", blocks)

ConvertMultiple == StartConversion("convertMultiple")

ConvertMultipleReturn == FinishConversion("convertMultiple", "done", blockArrays)

ConvertWithMetadata == StartConversion("convertWithMetadata")

ConvertToJson == StartConversion("convertToJson")

ConvertToJsonReturn == FinishConversion("convertToJson", "built", JsonCopy(blocks))

\* this.options = { ...this.options, ...options }
SetOptions ==
    /\ Ready
    /\ \E given \in SetOptionsArguments :
           converter' = [converter EXCEPT !.options = Spread(@, given),
                                          !.object = converter.objects,
                                          !.objects = @ + 1,
                                          !.given = Append(@, given),
                                          !.methods = Append(@, "setOptions")]
    /\ output' = Null
    /\ UNCHANGED << origin, lines, options, pc, currentIndex, document, childIndex,
                    currentRichTextElements, blocks, blockArrays, currentBlocks, tableCount,
                    arrayId, held, calls >>

\* the object getOptions returns: a new one
ReturnedOwnObject(object, new) == object

ReturnedObject(object, new) == new

\* return { ...this.options }
GetOptions ==
    /\ Ready
    /\ output' = [object |-> ReturnedObject(converter.object, converter.objects),
                  options |-> Spread(<< >>, converter.options),
                  changed |-> FALSE]
    /\ converter' = [converter EXCEPT !.objects = @ + 1,
                                      !.methods = Append(@, "getOptions")]
    /\ UNCHANGED << origin, lines, options, pc, currentIndex, document, childIndex,
                    currentRichTextElements, blocks, blockArrays, currentBlocks, tableCount,
                    arrayId, held, calls >>

\* the caller of getOptions changes the object it got; the options of the converter
\* change with it when they are that object
ChangeReturned ==
    /\ origin = "converter"
    /\ pc = "ready"
    /\ Len(converter.methods) > 0
    /\ converter.methods[Len(converter.methods)] = "getOptions"
    /\ ~output.changed
    /\ output' = [output EXCEPT !.options = Spread(@, ChangedOptions), !.changed = TRUE]
    /\ converter' = IF output.object = converter.object
                    THEN [converter EXCEPT !.options = Spread(@, ChangedOptions)]
                    ELSE converter
    /\ UNCHANGED << origin, lines, options, pc, currentIndex, document, childIndex,
                    currentRichTextElements, blocks, blockArrays, currentBlocks, tableCount,
                    arrayId, held, calls >>

\* markdownToSlackBlocksWithMetadata after its call of markdownToSlackBlocks has returned;
\* convertWithMetadata returns what it returns
WithMetadataReturn ==
    /\ origin = "metadata" \/ Running("convertWithMetadata")
    /\ pc = "built"
    /\ output' = MetadataResult(blocks)
    /\ pc' = IF origin = "converter" THEN "ready" ELSE "reported"
    /\ UNCHANGED << origin, lines, options, currentIndex, document, childIndex,
                    currentRichTextElements, blocks, blockArrays, currentBlocks, tableCount,
                    arrayId, held, calls, converter >>

Next ==
    \/ SkipEmptyLine
    \/ ParseHeading
    \/ ParseThematicBreak
    \/ ParseCodeBlock
    \/ ParseBlockquote
    \/ ParseList
    \/ ParseTable
    \/ ParseParagraph
    \/ ParseReturn
    \/ BuildBlocksStart
    \/ BuildBlocksDivider
    \/ BuildBlocksTable
    \/ BuildBlocksRichText
    \/ BuildBlocksReturn
    \/ BuildBlocksMultipleStart
    \/ BuildBlocksMultipleDivider
    \/ BuildBlocksMultipleTable
    \/ BuildBlocksMultipleRichText
    \/ BuildBlocksMultipleReturn
    \/ WithMetadataReturn
    \/ Convert
    \/ ConvertReturn
    \/ ConvertMultiple
    \/ ConvertMultipleReturn
    \/ ConvertWithMetadata
    \/ ConvertToJson
    \/ ConvertToJsonReturn
    \/ SetOptions
    \/ GetOptions
    \/ ChangeReturned

Spec == Init /\ [][Next]_vars

----------------------------------------------------------------------------
(* Properties *)

IsTable(x) == x.type = "table"

\* the table nodes of the parsed document, in source order
TableNodes == SelectSeq(document, IsTable)

\* the table blocks of a block list, in order
TableBlocks(blks) == SelectSeq(blks, IsTable)

Done == pc = "done" /\ origin \notin {"reuse", "converter"}

\* C1: every iteration of the block-level scan of parse() moves to a later line, so
\* that the scan ends after at most as many iterations as there are lines
C1_ScanAdvances ==
    [][pc = "parse" /\ pc' = "parse" => currentIndex' > currentIndex]_vars

\* C2: a text with N >= 1 tables, converted with maxTableRows >= 1, yields N groups,
\* and group k holds exactly one table block, that of the k-th table of the text
C2_OneGroupPerTable ==
    (Done /\ origin = "text" /\ options.maxTableRows >= 1 /\ Len(TableNodes) >= 1)
    => /\ Len(blockArrays) = Len(TableNodes)
       /\ \A k \in 1..Len(blockArrays) :
              TableBlocks(blockArrays[k]) = << buildTableBlock(TableNodes[k], options) >>

C2_ThreeTables ==
    /\ Done /\ origin = "text" /\ options.maxTableRows >= 1
    /\ Len(TableNodes) = 3
    /\ TableNodes[1].children # TableNodes[2].children
    /\ Len(blockArrays) = 3

\* C3: at every step of buildBlocksMultiple and in its result, for any tree and any
\* options, no group holds more than one table block, and tableCount is 0 or 1 and
\* counts the table blocks of the group under construction
C3_AtMostOneTablePerGroup ==
    /\ tableCount \in {0, 1}
    /\ tableCount = Len(TableBlocks(currentBlocks))
    /\ \A k \in 1..Len(blockArrays) : Len(TableBlocks(blockArrays[k])) <= 1

C3_SecondGroupOfHandBuiltTree ==
    /\ pc = "buildBlocksMultiple" /\ origin = "tree"
    /\ \E k \in 1..Len(document) : IsTable(document[k]) /\ ~Has(document[k], "children")
    /\ Len(blockArrays) >= 1
    /\ tableCount = 1

\* C4: for a text with at most one table, and any options, the multi-group result is
\* one group, equal to the single-group result
C4_SingleGroupEqualsBlocks ==
    (Done /\ origin = "text" /\ Len(TableNodes) <= 1) => blockArrays = << blocks >>

C4_TableBetweenContent ==
    /\ Done /\ origin = "text" /\ Len(TableNodes) = 1
    /\ Len(blocks) >= 3
    /\ \E k \in 2..(Len(blocks) - 1) : IsTable(blocks[k])

\* C5: the groups of the multi-group result, concatenated in order, are the block list
\* of the single-group result: splitting drops, duplicates and reorders nothing
C5_GroupsConcatenateToBlocks == Done => Flatten(blockArrays) = blocks

C5_SplitWithDividerAndRichText ==
    /\ Done
    /\ Len(blockArrays) >= 2
    /\ \E k \in 1..Len(blockArrays) :
           /\ \E p \in 1..Len(blockArrays[k]) : IsTable(blockArrays[k][p])
           /\ \E p \in 1..Len(blockArrays[k]) : blockArrays[k][p].type = "divider"
           /\ \E p \in 1..Len(blockArrays[k]) : blockArrays[k][p].type = "rich_text"

\* the position in blks of its k-th table block
TablePosition(blks, k) ==
    CHOOSE p \in 1..Len(blks) : IsTable(blks[p]) /\ Len(TableBlocks(Slice(blks, 1, p))) = k

\* the position in the single-group result at which group k of n groups starts, when
\* the groups are cut in front of every table but the first
GroupStart(k, n) ==
    IF k = 1 THEN 1
    ELSE IF k = n + 1 THEN Len(blocks) + 1
    ELSE TablePosition(blocks, k)

\* C6: when a text yields two or more tables, group k runs from table k up to, and not
\* including, table k + 1: every group after the first begins with its table, what lies
\* between table k and table k + 1 is in group k, what precedes the first table is in
\* the first group and what follows the last table is in the last group
C6_GroupsCutBeforeTables ==
    (Done /\ origin = "text" /\ Len(TableBlocks(blocks)) >= 2)
    => /\ Len(blockArrays) = Len(TableBlocks(blocks))
       /\ \A k \in 1..Len(blockArrays) :
              blockArrays[k] = Slice(blocks, GroupStart(k, Len(blockArrays)),
                                     GroupStart(k + 1, Len(blockArrays)) - 1)

C6_ContentBetweenAndAfterTables ==
    /\ Done /\ origin = "text"
    /\ Len(blockArrays) >= 2
    /\ \E p \in 1..(Len(blockArrays[1]) - 1) : IsTable(blockArrays[1][p])
    /\ IsTable(blockArrays[Len(blockArrays)][1])
    /\ Len(blockArrays[Len(blockArrays)]) >= 2

\* C7: the multi-group result is never the empty list: it is one empty group when the
\* conversion yields no block, and has no empty group otherwise
C7_NoEmptyGroup ==
    Done => /\ Len(blockArrays) >= 1
            /\ IF Len(blocks) = 0 THEN blockArrays = << << >> >>
               ELSE \A k \in 1..Len(blockArrays) : Len(blockArrays[k]) > 0

C7_BlankLinesOnly ==
    /\ Done /\ origin = "text"
    /\ Len(lines) >= 2
    /\ document = << >>
    /\ blockArrays = << << >> >>

\* the rows of a table node that come from the lines after the separator
DataRowCount(node) ==
    Cardinality({r \in 1..Len(node.children) :
                    \A c \in 1..Len(node.children[r].children) :
                        ~Has(node.children[r].children[c], "attributes")})

\* the table blocks of blks are those of the tables of the text, in order, none being
\* emitted when the row cap is below 1, and each satisfies Fits(block, node)
TablesFit(blks, Fits(_, _)) ==
    /\ Len(TableBlocks(blks)) = IF options.maxTableRows >= 1 THEN Len(TableNodes) ELSE 0
    /\ \A k \in 1..Len(TableBlocks(blks)) : Fits(TableBlocks(blks)[k], TableNodes[k])

RowsWithinDataRows(block, node) ==
    Len(block.rows) <= Min(DataRowCount(node), options.maxTableRows)

RowsWithinSourceRows(block, node) ==
    Len(block.rows) <= Min(1 + DataRowCount(node), options.maxTableRows)

\* C8 as claimed: an emitted table has at most min(data rows of the source, maxTableRows)
\* rows, the header row not being counted among the data rows
C8_RowsWithinDataRows ==
    (Done /\ origin = "text")
    => TablesFit(blocks, RowsWithinDataRows) /\ TablesFit(Flatten(blockArrays), RowsWithinDataRows)

\* C8 amended: an emitted table has at most min(1 + data rows of the source, maxTableRows)
\* rows: the header row is emitted as a row and counts against the cap
C8_RowsWithinSourceRows ==
    (Done /\ origin = "text")
    => TablesFit(blocks, RowsWithinSourceRows)
       /\ TablesFit(Flatten(blockArrays), RowsWithinSourceRows)

C8_RowsCutByCap ==
    /\ Done /\ origin = "text"
    /\ \E k \in 1..Len(TableNodes) :
           /\ Len(TableNodes[k].children) > options.maxTableRows
           /\ Len(TableBlocks(blocks)) >= k
           /\ Len(TableBlocks(blocks)[k].rows) = options.maxTableRows

\* the table cell emitted for one table_cell node
CellOf(cellNode) ==
    [type |-> "rich_text",
     elements |-> << [type |-> "rich_text_section",
                      elements |-> OrSpace(buildRichTextElements(cellNode, {}))] >>]

CellsArePrefix(block, node) ==
    \A r \in 1..Len(block.rows) :
        /\ Len(block.rows[r]) = Min(Len(node.children[r].children), options.maxTableColumns)
        /\ \A j \in 1..Len(block.rows[r]) : block.rows[r][j] = CellOf(node.children[r].children[j])

ColumnSettingsFit(block) ==
    /\ \A r \in 1..Len(block.rows) : Len(block.rows[r]) <= Len(block.column_settings)
    /\ Len(block.column_settings) > 0
       => \E r \in 1..Len(block.rows) : Len(block.rows[r]) = Len(block.column_settings)
    /\ \A c \in 1..Len(block.column_settings) : block.column_settings[c] = [is_wrapped |-> TRUE]

\* C10: the column_settings of an emitted table has as many entries as the widest of
\* its emitted rows has cells, each with is_wrapped = true
C10_ColumnSettingsMatchWidestRow ==
    Done => /\ \A k \in 1..Len(TableBlocks(blocks)) : ColumnSettingsFit(TableBlocks(blocks)[k])
            /\ \A k \in 1..Len(TableBlocks(Flatten(blockArrays))) :
                   ColumnSettingsFit(TableBlocks(Flatten(blockArrays))[k])

C10_WidestRowIsNotTheHeader ==
    /\ Done
    /\ \E k \in 1..Len(TableBlocks(blocks)) :
           /\ Len(TableBlocks(blocks)[k].rows[1]) < Len(TableBlocks(blocks)[k].column_settings)
           /\ Len(TableBlocks(blocks)[k].rows[1]) >= 1

\* the type of the element a flowable top-level node is rendered as
ElementKind(node) ==
    CASE node.type \in {"heading", "paragraph"} -> "rich_text_section"
      [] node.type = "code_block" -> "rich_text_preformatted"
      [] node.type = "blockquote" -> "rich_text_quote"
      [] node.type = "list" -> "rich_text_list"

RECURSIVE RunShapes(_, _)
\* one entry per maximal run of consecutive flowable nodes (the element kinds of the
\* run, in order), per thematic break and per table, in the order of the nodes; run
\* is the run of flowable nodes that ends where nodes begins
RunShapes(nodes, run) ==
    IF nodes = << >> THEN (IF run = << >> THEN << >> ELSE << run >>)
    ELSE IF Head(nodes).type \in {"thematic_break", "table"}
    THEN (IF run = << >> THEN << >> ELSE << run >>)
         \o << << IF Head(nodes).type = "table" THEN "table" ELSE "divider" >> >>
         \o RunShapes(Tail(nodes), << >>)
    ELSE RunShapes(Tail(nodes), Append(run, ElementKind(Head(nodes))))

\* the shape of a block: the kinds of the elements of a rich_text block, in order, and
\* the type of any other block
BlockShape(block) ==
    IF block.type = "rich_text"
    THEN [k \in 1..Len(block.elements) |-> block.elements[k].type]
    ELSE << block.type >>

HeadingHandled ==
    /\ pc \in {"buildBlocks", "buildBlocksMultiple"}
    /\ origin = "text"
    /\ childIndex >= 1
    /\ document[childIndex].type = "heading"

\* the elements of the section emitted for the heading just handled
HeadingElements == currentRichTextElements[Len(currentRichTextElements)].elements

\* the heading just handled directly follows another flowable node
FollowsFlowable ==
    childIndex >= 2 /\ document[childIndex - 1].type \notin {"thematic_break", "table"}

\* nothing was emitted before the heading just handled
FirstContentOverall ==
    /\ Len(currentRichTextElements) = 1
    /\ IF pc = "buildBlocks" THEN blocks = << >>
       ELSE blockArrays = << >> /\ currentBlocks = << >>

\* the heading just handled has no line-break element at all when its level is 3 or
\* more, and ends with one when its level is 1 or 2
BreaksByLevel ==
    IF document[childIndex].attributes.level >= 3
    THEN \A k \in 1..Len(HeadingElements) : HeadingElements[k] # LineBreak
    ELSE HeadingElements[Len(HeadingElements)] = LineBreak

\* C12 as claimed: a heading of level 1 or 2 ends with a line break and starts with one
\* unless it is the first content emitted in the whole conversion; deeper headings get
\* no line break
C12_LeadingBreakUnlessFirstOverall ==
    HeadingHandled
    => /\ BreaksByLevel
       /\ document[childIndex].attributes.level <= 2
          => (HeadingElements[1] = LineBreak <=> ~FirstContentOverall)

\* C12 amended: a heading of level 1 or 2 ends with a line break and starts with one
\* exactly when it directly follows another flowable node, the pending elements being
\* then non-empty: not when it is first overall, and not after a divider or a table;
\* deeper headings get no line break
C12_LeadingBreakAfterFlowable ==
    HeadingHandled
    => /\ BreaksByLevel
       /\ document[childIndex].attributes.level <= 2
          => (HeadingElements[1] = LineBreak <=> FollowsFlowable)

C12_HeadingAfterTableAndContent ==
    /\ HeadingHandled
    /\ document[childIndex].attributes.level = 2
    /\ childIndex = 3
    /\ document[1].type = "paragraph"
    /\ document[2].type = "table"
    /\ HeadingElements[1] # LineBreak
    /\ HeadingElements[Len(HeadingElements)] = LineBreak

\* the flag a formatting span contributes
SpanFlag(type) ==
    CASE type = "strong" -> "bold"
      [] type = "emphasis" -> "italic"
      [] type = "strikethrough" -> "strike"

RECURSIVE InlineLeaves(_, _)
\* the leaves of an inline subtree from left to right, each with the flags of the
\* spans that enclose it, of the inherited style and, for inline code, the code flag
InlineLeaves(nodes, flags) ==
    IF nodes = << >> THEN << >>
    ELSE (IF Head(nodes).type \in {"strong", "emphasis", "strikethrough"}
          THEN InlineLeaves(Head(nodes).children, flags \cup {SpanFlag(Head(nodes).type)})
          ELSE << [type |-> Head(nodes).type,
                   node |-> Head(nodes),
                   flags |-> IF Head(nodes).type = "code_inline" THEN flags \cup {"code"}
                             ELSE flags] >>)
         \o InlineLeaves(Tail(nodes), flags)

\* a build method has just handled the top-level heading or paragraph document[childIndex]
SectionHandled ==
    /\ pc \in {"buildBlocks", "buildBlocksMultiple"}
    /\ origin = "text"
    /\ childIndex >= 1
    /\ document[childIndex].type \in {"heading", "paragraph"}
    /\ document[childIndex].children # << >>

\* the elements rendered from the inline subtree of the node just handled: those of
\* its section without the line breaks put around a heading of level 1 or 2
RenderedElements ==
    LET Inner(elements, first, last) == Slice(elements, first, last)
    IN  IF document[childIndex].type = "heading" /\ document[childIndex].attributes.level <= 2
        THEN Inner(HeadingElements, IF HeadingElements[1] = LineBreak THEN 2 ELSE 1,
                   Len(HeadingElements) - 1)
        ELSE HeadingElements

\* the leaves of the node just handled, with the style its kind starts from
HandledLeaves ==
    InlineLeaves(document[childIndex].children,
                 IF document[childIndex].type = "heading" THEN {"bold"} ELSE {})

StyleOf(element) == IF Has(element, "style") THEN element.style ELSE {}

\* C13: every text, inline code or link leaf of a heading, of any level and under any
\* nesting of spans, is rendered with bold = true, and the heading is emitted as a
\* rich_text_section inside a rich_text block
C13_HeadingLeavesAreBold ==
    /\ (SectionHandled /\ document[childIndex].type = "heading")
       => /\ currentRichTextElements[Len(currentRichTextElements)].type = "rich_text_section"
          /\ Len(RenderedElements) = Len(HandledLeaves)
          /\ \A k \in 1..Len(RenderedElements) :
                 HandledLeaves[k].type \in {"text", "code_inline", "link"}
                 => "bold" \in StyleOf(RenderedElements[k])
    /\ (Done /\ origin = "text" /\ Len(document) = 1 /\ document[1].type = "heading")
       => /\ Len(blocks) = 1
          /\ blocks[1].type = "rich_text"
          /\ Len(blocks[1].elements) = 1
          /\ blocks[1].elements[1].type = "rich_text_section"

C13_HeadingWithNestedSpansAndLink ==
    /\ SectionHandled
    /\ document[childIndex].type = "heading"
    /\ document[childIndex].attributes.level = 3
    /\ \E k \in 1..Len(RenderedElements) :
           /\ RenderedElements[k].type = "link"
           /\ HandledLeaves[k].type = "link"
    /\ \E k \in 1..Len(RenderedElements) :
           StyleOf(RenderedElements[k]) = {"bold", "italic", "strike"}

\* C14: the style of a rendered text or link leaf is exactly the union of the flags of
\* the spans that enclose it and of the inherited style, no flag of an outer span being
\* cleared further down, and a leaf without any flag has no style field
C14_StyleIsUnionOfEnclosingSpans ==
    SectionHandled
    => /\ Len(RenderedElements) = Len(HandledLeaves)
       /\ \A k \in 1..Len(RenderedElements) :
              HandledLeaves[k].type \in {"text", "code_inline", "link"}
              => /\ StyleOf(RenderedElements[k]) = HandledLeaves[k].flags
                 /\ Has(RenderedElements[k], "style") <=> HandledLeaves[k].flags # {}

C14_CodeAndNestedSpansInsideBold ==
    /\ SectionHandled
    /\ document[childIndex].type = "paragraph"
    /\ \E k \in 1..Len(RenderedElements) : StyleOf(RenderedElements[k]) = {"bold", "code"}
    /\ \E k \in 1..Len(RenderedElements) :
           StyleOf(RenderedElements[k]) = {"bold", "italic", "strike"}

\* the node just handled is a paragraph made of one bold span whose children are
\* plain text and links, with at least one of each
BoldSpanWithLink ==
    /\ SectionHandled
    /\ document[childIndex].type = "paragraph"
    /\ Len(document[childIndex].children) = 1
    /\ document[childIndex].children[1].type = "strong"
    /\ \A k \in 1..Len(document[childIndex].children[1].children) :
           document[childIndex].children[1].children[k].type \in {"text", "link"}
    /\ \E k \in 1..Len(document[childIndex].children[1].children) :
           document[childIndex].children[1].children[k].type = "text"
    /\ \E k \in 1..Len(document[childIndex].children[1].children) :
           document[childIndex].children[1].children[k].type = "link"

\* what a child of a bold span is to be rendered as: bold text for a text run, and for
\* a link a bold link element with its url, and with its text when that is not the url
BoldElement(child) ==
    IF child.type = "text"
    THEN [type |-> "text", text |-> child.content, style |-> {"bold"}]
    ELSE IF child.content # child.attributes.href
    THEN [type |-> "link", url |-> child.attributes.href, text |-> child.content,
          style |-> {"bold"}]
    ELSE [type |-> "link", url |-> child.attributes.href, style |-> {"bold"}]

\* C15: a bold span that encloses a link and plain text yields, in order, one bold text
\* element per text run and one bold element of type link per link, with the url of
\* the source and, when it differs from the url, the link text of the source
C15_BoldSpanKeepsLinkAndText ==
    BoldSpanWithLink
    => RenderedElements = [k \in 1..Len(document[childIndex].children[1].children) |->
                              BoldElement(document[childIndex].children[1].children[k])]

C15_BoldTextBeforeNamedLink ==
    /\ BoldSpanWithLink
    /\ Len(RenderedElements) = 2
    /\ RenderedElements[1].type = "text"
    /\ RenderedElements[2].type = "link"
    /\ Has(RenderedElements[2], "text")
    /\ RenderedElements[2].style = {"bold"}

\* the source text of a link without text and of an autolink
EmptyTextLink == << "[", "]", "(", "u", ")" >>

AutoLink == << "<", "h", "t", "t", "p", ":", "/", "/", "u", ">" >>

\* C16: a link is emitted as an element of type link with its url, and with a text
\* field exactly when its display text differs from the url; the link without text
\* [](u) and the autolink <http://u> have their target as display text, so that they
\* are emitted with that url and without text
C16_LinkTextOnlyWhenNotUrl ==
    /\ SectionHandled
       => \A k \in 1..Len(RenderedElements) :
              HandledLeaves[k].type = "link"
              => /\ RenderedElements[k].type = "link"
                 /\ RenderedElements[k].url = HandledLeaves[k].node.attributes.href
                 /\ Has(RenderedElements[k], "text")
                    <=> HandledLeaves[k].node.content # HandledLeaves[k].node.attributes.href
                 /\ Has(RenderedElements[k], "text")
                    => RenderedElements[k].text = HandledLeaves[k].node.content
    /\ (SectionHandled /\ lines = << EmptyTextLink >>)
       => RenderedElements = << [type |-> "link", url |-> << "u" >>] >>
    /\ (SectionHandled /\ lines = << AutoLink >>)
       => RenderedElements
          = << [type |-> "link", url |-> << "h", "t", "t", "p", ":", "/", "/", "u" >>] >>

C16_NamedLinkBesideBareLink ==
    /\ SectionHandled
    /\ Len(RenderedElements) = 2
    /\ RenderedElements[1].type = "link" /\ Has(RenderedElements[1], "text")
    /\ RenderedElements[2].type = "link" /\ ~Has(RenderedElements[2], "text")
    /\ HandledLeaves[2].type = "link"

\* the text is one list that starts at the first line and runs to the last
WholeTextIsList ==
    /\ origin = "text"
    /\ pc # "parse"
    /\ Len(document) = 1
    /\ document[1].type = "list"
    /\ document[1].attributes.endIndex = Len(lines)

\* line k of the text is a marker line that is not indented
IsItemLine(k) ==
    /\ ~IsIndented(lines[k])
    /\ UnorderedMatch(Trim(lines[k])).ok \/ OrderedMatch(Trim(lines[k])).ok

\* the first line of the text that is a marker line and not indented
FirstItemLine == CHOOSE k \in 1..Len(lines) : IsItemLine(k) /\ \A j \in 1..(k - 1) : ~IsItemLine(j)

\* C17: a list is ordered exactly when its first non-indented item has an ordered
\* marker, whatever the markers of its later items, and the emitted rich_text_list has
\* style ordered exactly in that case
C17_FirstItemDecidesStyle ==
    (WholeTextIsList /\ \E k \in 1..Len(lines) : IsItemLine(k))
    => /\ document[1].attributes.ordered = OrderedMatch(Trim(lines[FirstItemLine])).ok
       /\ Done => blocks[1].elements[1].style
                  = IF OrderedMatch(Trim(lines[FirstItemLine])).ok THEN "ordered" ELSE "bullet"

\* the text of the item that the marker line k starts
ItemText(k) ==
    IF OrderedMatch(Trim(lines[k])).ok THEN OrderedMatch(Trim(lines[k])).text
    ELSE UnorderedMatch(Trim(lines[k])).text

RECURSIVE Continuation(_)
\* what the lines from k up to the next item line add to the item before them: for an
\* indented marker line a text node with a newline and a synthetic marker, then the
\* nodes of its text; for indented plain text a text node with a newline and the text
Continuation(k) ==
    IF k > Len(lines) \/ IsItemLine(k) THEN << >>
    ELSE (IF OrderedMatch(Trim(lines[k])).ok
          THEN << TextNode(<< "\n" >> \o OrderedMatch(Trim(lines[k])).number \o << " " >>) >>
               \o parseInlineElements(OrderedMatch(Trim(lines[k])).text)
          ELSE IF UnorderedMatch(Trim(lines[k])).ok
          THEN << TextNode(<< "\n", "-", " " >>) >>
               \o parseInlineElements(UnorderedMatch(Trim(lines[k])).text)
          ELSE << TextNode(<< "\n" >> \o Trim(lines[k])) >>)
         \o Continuation(k + 1)

RECURSIVE ItemsFrom(_)
\* the children of one item per non-indented marker line from line k on
ItemsFrom(k) ==
    IF k > Len(lines) THEN << >>
    ELSE (IF IsItemLine(k)
          THEN << parseInlineElements(ItemText(k)) \o Continuation(k + 1) >>
          ELSE << >>)
         \o ItemsFrom(k + 1)

\* C18: in a list, an indented marker line starts neither an item nor a nested list:
\* a text node with a newline and a synthetic marker, then the nodes of its text, are
\* appended to the item before it, and indented plain text is appended to that item as
\* a text node with a leading newline; there is one item, and one emitted list entry,
\* per non-indented marker line
C18_IndentedLinesJoinPrecedingItem ==
    WholeTextIsList
    => /\ [j \in 1..Len(document[1].children) |-> document[1].children[j].children]
          = ItemsFrom(1)
       /\ \A j \in 1..Len(document[1].children) : document[1].children[j].type = "list_item"
       /\ Done => /\ blocks[1].elements[1].type = "rich_text_list"
                  /\ Len(blocks[1].elements[1].elements)
                     = Cardinality({k \in 1..Len(lines) : IsItemLine(k)})

C18_ItemWithIndentedMarkerAndText ==
    /\ WholeTextIsList
    /\ Done
    /\ Len(document[1].children) = 1
    /\ Len(document[1].children[1].children) = 4
    /\ document[1].children[1].children[2].content = << "\n", "7", " " >>
    /\ document[1].children[1].children[4].content = << "\n", "c" >>
    /\ Len(blocks[1].elements[1].elements) = 1

\* the options with every option other than the two table caps at its default
CapsOnly(opts) ==
    [DEFAULT_OPTIONS EXCEPT !.maxTableRows = opts.maxTableRows,
                            !.maxTableColumns = opts.maxTableColumns]

FreshResult(method, tree) ==
    IF method = "buildBlocks" THEN buildBlocks(tree, options)
    ELSE buildBlocksMultiple(tree, options)

\* C20: on one builder and for any sequence of calls of buildBlocks and
\* buildBlocksMultiple, the accumulator is empty whenever no call is running, each call
\* returns what a builder just constructed returns for the same tree, and the array
\* the accumulator refers to is never one held by a block pushed earlier, so that what
\* a later call adds to the accumulator changes no block list returned before
C20_CallsOnOneBuilderAreIndependent ==
    /\ pc \in Idle => currentRichTextElements = << >>
    /\ \A k \in 1..Len(calls) : calls[k].result = FreshResult(calls[k].method, calls[k].tree)
    /\ arrayId \notin held

C20_HeadingAfterCallEndingWithRichText ==
    /\ origin = "reuse"
    /\ pc \in Idle
    /\ Len(calls) >= 3
    /\ calls[1].method = "buildBlocksMultiple"
    /\ calls[1].tree[Len(calls[1].tree)].type = "paragraph"
    /\ calls[2].method = "buildBlocks"
    /\ calls[2].tree[1].type = "heading"
    /\ calls[2].result[1].elements[1].elements[1].type = "text"
    /\ calls[3].method = "buildBlocksMultiple"
    /\ Len(calls[3].result) = 2
    /\ Cardinality(held) >= 3

\* the warnings of a result, none when warnings is undefined
WarningsOf(res) == IF Has(res, "warnings") THEN res.warnings ELSE << >>

HasWarning(res, kind) == \E k \in 1..Len(WarningsOf(res)) : WarningsOf(res)[k].kind = kind

\* C21: markdownToSlackBlocksWithMetadata returns the blocks markdownToSlackBlocks
\* returns for the same markdown and options; it warns about the block count exactly
\* when there are more than 50 blocks and about tables exactly when a table block is
\* present, and warnings is undefined exactly when neither is the case
C21_MetadataBlocksAndWarnings ==
    pc = "reported"
    => /\ output.blocks = blocks
       /\ output.blocks = buildBlocks(document, options)
       /\ HasWarning(output, "block_count") <=> Len(output.blocks) > 50
       /\ HasWarning(output, "table")
          <=> \E k \in 1..Len(output.blocks) : output.blocks[k].type = "table"
       /\ ~Has(output, "warnings")
          <=> /\ Len(output.blocks) <= 50
              /\ \A k \in 1..Len(output.blocks) : output.blocks[k].type # "table"

C21_FiftyBlocksWithTable ==
    /\ pc = "reported"
    /\ Len(output.blocks) = 50
    /\ output.blocks[1].type = "table"
    /\ output.warnings = << [kind |-> "table"] >>

\* the options of given[1] overridden key by key by those of given[2], given[3], ...:
\* each key has the value of the last object that names it
Overridden(given) ==
    LET Named(k) == {i \in 1..Len(given) : k \in DOMAIN given[i]}
        LastNaming(k) == CHOOSE i \in Named(k) : \A j \in Named(k) : j <= i
    IN  [k \in UNION {DOMAIN given[i] : i \in 1..Len(given)} |-> given[LastNaming(k)][k]]

\* getOptions was the last call on the converter and has returned
GotOptions == Running("getOptions") /\ pc = "ready"

\* C22: the options a MarkdownConverter holds, and those getOptions returns, are the
\* constructor options overridden key by key by every setOptions argument in call
\* order, during and after every call of convert, convertMultiple, convertWithMetadata
\* and convertToJson; the object getOptions returns is not the one the converter
\* holds, and changing it leaves the options of the converter as they were
C22_OptionsFollowSetOptionsOnly ==
    origin = "converter"
    => /\ converter.options = Overridden(converter.given)
       /\ GotOptions
          => /\ output.object # converter.object
             /\ ~output.changed => output.options = Overridden(converter.given)
             /\ output.changed
                => output.options = Overridden(Append(converter.given, ChangedOptions))

C22_ChangedCopyAfterSetOptionsAndConvert ==
    /\ GotOptions
    /\ output.changed
    /\ converter.methods[1] = "setOptions"
    /\ converter.methods[2]
       \in {"convert", "convertMultiple", "convertWithMetadata", "convertToJson"}
    /\ converter.options = [expandSections |-> FALSE, maxTableRows |-> 1]
    /\ output.options = [expandSections |-> FALSE, maxTableRows |-> 0]

\* the scan pushes a node of the given type in this step
Pushes(type) ==
    /\ pc = "parse"
    /\ Len(document') = Len(document) + 1
    /\ document'[Len(document')].type = type

\* line index i holds a line that, once trimmed, is made of pipes, dashes, colons and
\* whitespace only
SeparatorAt(i) ==
    /\ i < Len(lines)
    /\ Trim(lines[i + 1]) # << >>
    /\ \A k \in 1..Len(Trim(lines[i + 1])) :
           Trim(lines[i + 1])[k] \in {"|", "-", ":", " ", "\t"}

\* the line indices of the data rows of a table whose header is at line index i: the
\* consecutive lines with a pipe from i + 2 on
DataLines(i) ==
    {j \in (i + 2)..(Len(lines) - 1) : \A h \in (i + 2)..j : Includes(lines[h + 1], "|")}

\* the cells of a row are those of the line, all of them flagged header or none
RowFromLine(row, line, isHeader) ==
    /\ row.type = "table_row"
    /\ Len(row.children) = Len(parseTableRow(line))
    /\ \A k \in 1..Len(row.children) :
           /\ row.children[k].type = "table_cell"
           /\ row.children[k].children = parseInlineElements(parseTableRow(line)[k])
           /\ Has(row.children[k], "attributes") <=> isHeader
           /\ isHeader => row.children[k].attributes.isHeader

\* C23: the scan starts a table at line i only if line i holds a pipe and line i + 1
\* exists and is a separator line; a line with a pipe that no separator line follows
\* starts no table; a table node has at least one row, its first row is made of the
\* cells of line i, all flagged header, the separator line gives no row, and its data
\* rows are those of the consecutive lines with a pipe that follow the separator
C23_TableNeedsSeparatorLine ==
    [][/\ Pushes("table")
          => /\ Includes(lines[currentIndex + 1], "|")
             /\ SeparatorAt(currentIndex + 1)
             /\ Len(document'[Len(document')].children) >= 1
             /\ RowFromLine(document'[Len(document')].children[1],
                            lines[currentIndex + 1], TRUE)
             /\ Len(document'[Len(document')].children)
                = 1 + Cardinality(DataLines(currentIndex))
             /\ \A j \in DataLines(currentIndex) :
                    RowFromLine(document'[Len(document')].children[j - currentIndex],
                                lines[j + 1], FALSE)
             /\ currentIndex' = currentIndex + 2 + Cardinality(DataLines(currentIndex))
       /\ (/\ pc = "parse"
           /\ currentIndex < Len(lines)
           /\ Includes(lines[currentIndex + 1], "|")
           /\ ~SeparatorAt(currentIndex + 1))
          => ~Pushes("table")]_vars

C23_PipeLineThenTable ==
    /\ pc = "parsed"
    /\ origin = "text"
    /\ Len(lines) = 3
    /\ Includes(lines[1], "|")
    /\ ~SeparatorAt(1)
    /\ Len(document) = 2
    /\ document[1].type = "paragraph"
    /\ document[2].type = "table"
    /\ Len(document[2].children) = 1

\* the scan stands at a line that is not blank
AtNonBlankLine ==
    /\ pc = "parse"
    /\ currentIndex < Len(lines)
    /\ Trim(lines[currentIndex + 1]) # << >>

\* the construct that claims a non-blank line is the first of heading, thematic break,
\* fenced code, blockquote, list, table whose test the line passes, and the paragraph
\* when it passes none; the step pushes one node of that construct
ScanClaimsByPriority ==
    [][AtNonBlankLine
       => /\ Len(document') = Len(document) + 1
          /\ document'[Len(document')].type = LineClass(lines, currentIndex)
          /\ SubSeq(document', 1, Len(document)) = document]_vars

\* C24: every non-blank line the scan stands at is claimed by one construct, chosen in
\* the order heading, thematic break, fenced code, blockquote, list, table, paragraph;
\* a paragraph stops consuming at exactly the lines that the scan classifies as blank
\* or as one of the six constructs before it, so every paragraph holds at least one line
C24_ParagraphStopsWhereScanClaims ==
    [][/\ AtNonBlankLine
          => /\ Len(document') = Len(document) + 1
             /\ document'[Len(document')].type = LineClass(lines, currentIndex)
       /\ \A i \in 0..(Len(lines) - 1) :
              ParagraphStop(lines, i) <=> LineClass(lines, i) # "paragraph"
       /\ Pushes("paragraph") => currentIndex' > currentIndex]_vars

\* line k of the text is a marker line, indented or not
IsMarkerLine(k) == UnorderedMatch(Trim(lines[k])).ok \/ OrderedMatch(Trim(lines[k])).ok

\* the nodes are found, in order and side by side, among the children of some item
HeldByAnItem(nodes, items) ==
    \E j \in 1..Len(items) :
        \E p \in 0..(Len(items[j].children) - Len(nodes)) :
            SubSeq(items[j].children, p + 1, p + Len(nodes)) = nodes

\* C25: a list is started only by a marker line that is not indented, so a list node
\* holds at least one item and an emitted rich_text_list at least one section, and the
\* text of every marker line that a list consumes is found in one of its items
C25_ListStartsAtUnindentedMarker ==
    [][/\ Pushes("list")
          => /\ IsMarkerLine(currentIndex + 1)
             /\ ~IsIndented(lines[currentIndex + 1])
             /\ Len(document'[Len(document')].children) >= 1
             /\ \A k \in (currentIndex + 1)..currentIndex' :
                    IsMarkerLine(k)
                    => HeldByAnItem(parseInlineElements(ItemText(k)),
                                    document'[Len(document')].children)
       /\ \A k \in 1..Len(blocks) :
              blocks[k].type = "rich_text"
              => \A j \in 1..Len(blocks[k].elements) :
                     blocks[k].elements[j].type = "rich_text_list"
                     => Len(blocks[k].elements[j].elements) >= 1]_vars

\* the table node yields no row: the row cap is zero or below, or none of the children
\* within the cap is a row with cells
YieldsNoRows(node) ==
    \/ options.maxTableRows <= 0
    \/ ~Has(node, "children")
    \/ \A k \in 1..Len(node.children) :
           k <= options.maxTableRows
           => ~(node.children[k].type = "table_row" /\ Has(node.children[k], "children"))

\* the blocks with the pending elements, if any, flushed into one more rich_text block
WithPendingFlushed(blks) ==
    IF currentRichTextElements = << >> THEN blks
    ELSE Append(blks, [type |-> "rich_text", elements |-> currentRichTextElements])

\* C26: a table that yields no row emits no table block and leaves the table counter of
\* the group as it is, the pending elements being flushed at that point, in buildBlocks
\* and in buildBlocksMultiple; it closes no group and opens none
C26_RowlessTableOnlyFlushes ==
    [][/\ (pc = "buildBlocks" /\ childIndex < Len(document) /\ Child.type = "table"
           /\ YieldsNoRows(Child))
          => /\ blocks' = WithPendingFlushed(blocks)
             /\ currentRichTextElements' = << >>
       /\ (pc = "buildBlocksMultiple" /\ childIndex < Len(document) /\ Child.type = "table"
           /\ YieldsNoRows(Child))
          => /\ currentBlocks' = WithPendingFlushed(currentBlocks)
             /\ currentRichTextElements' = << >>
             /\ tableCount' = tableCount
             /\ blockArrays' = blockArrays]_vars

\* the sections and quotes of a rich_text block, the sections of its lists, and the
\* fragments of the cells of a table block, all hold at least one element
FilledBlock(block) ==
    /\ block.type = "rich_text"
       => /\ Len(block.elements) >= 1
          /\ \A j \in 1..Len(block.elements) :
                 /\ block.elements[j].type \in {"rich_text_section", "rich_text_quote"}
                    => Len(block.elements[j].elements) >= 1
                 /\ block.elements[j].type = "rich_text_list"
                    => \A i \in 1..Len(block.elements[j].elements) :
                           Len(block.elements[j].elements[i].elements) >= 1
    /\ block.type = "table"
       => \A r \in 1..Len(block.rows) :
              \A c \in 1..Len(block.rows[r]) :
                  /\ Len(block.rows[r][c].elements) = 1
                  /\ Len(block.rows[r][c].elements[1].elements) >= 1

\* every block of every group built or under construction is filled
AllBlocksFilled ==
    /\ \A k \in 1..Len(blocks) : FilledBlock(blocks[k])
    /\ \A k \in 1..Len(currentBlocks) : FilledBlock(currentBlocks[k])
    /\ \A g \in 1..Len(blockArrays) :
           \A k \in 1..Len(blockArrays[g]) : FilledBlock(blockArrays[g][k])

\* a build method has just handled a top-level node of one of the given types
Handled(types) ==
    /\ pc \in {"buildBlocks", "buildBlocksMultiple"}
    /\ childIndex >= 1
    /\ document[childIndex].type \in types

\* the inline translation of the node yields nothing
NoInline(node) == buildRichTextElements(node, {}) = << >>

\* what the node just handled was rendered as, when it is not a table
LastRendered == currentRichTextElements[Len(currentRichTextElements)]

\* the table block of the table just handled
LastTable ==
    IF pc = "buildBlocks" THEN blocks[Len(blocks)] ELSE currentBlocks[Len(currentBlocks)]

\* list items, and cells of tables of which every row is emitted, are rendered with one
\* space when their inline translation yields nothing
EmptyItemsAndCellsBecomeSpace ==
    /\ Handled({"list"})
       => \A i \in 1..Len(document[childIndex].children) :
              NoInline(document[childIndex].children[i])
              => LastRendered.elements[i].elements = << Space >>
    /\ (Handled({"table"}) /\ origin = "tree" /\ document \in SparseTrees)
       => LastTable.rows[1][1].elements[1].elements = << Space >>

\* C27 as stated: no rich_text block is empty, every section, quote, list item section
\* and cell fragment holds an element, and where the inline translation yields nothing
\* it is one text element with one space
C27_EmptyInlineBecomesSpace ==
    /\ AllBlocksFilled
    /\ EmptyItemsAndCellsBecomeSpace
    /\ (Handled({"heading", "paragraph", "blockquote"}) /\ NoInline(document[childIndex]))
       => LastRendered.elements = << Space >>

\* C27, amended: no rich_text block is empty, and every section, quote, list item section
\* and cell fragment holds an element; where the inline translation yields nothing it
\* is one text element with one space, except that a heading of level 1 or 2 then
\* holds its line breaks only
C27_EmptyInlineBecomesSpaceOrBreaks ==
    /\ AllBlocksFilled
    /\ EmptyItemsAndCellsBecomeSpace
    /\ (Handled({"paragraph", "blockquote"}) /\ NoInline(document[childIndex]))
       => LastRendered.elements = << Space >>
    /\ (Handled({"heading"}) /\ NoInline(document[childIndex]))
       => IF document[childIndex].attributes.level <= 2
          THEN /\ Len(LastRendered.elements) \in {1, 2}
               /\ \A k \in 1..Len(LastRendered.elements) :
                      LastRendered.elements[k] = LineBreak
          ELSE LastRendered.elements = << Space >>

C27_EmptyParagraphThenEmptyHeading ==
    /\ Handled({"heading"})
    /\ NoInline(document[childIndex])
    /\ childIndex = 2
    /\ Len(currentRichTextElements) = 2
    /\ currentRichTextElements[1].elements = << Space >>
    /\ LastRendered.elements = << LineBreak, LineBreak >>

\* the rich_text_list emitted for a text that is one list
EmittedList == blocks[1].elements[1]

\* the numeral of the first item of the list
FirstNumeral == ParseInt(OrderedMatch(Trim(lines[FirstItemLine])).number)

\* every rich_text_list among the pending elements and the emitted blocks
ListsEmitted ==
    { currentRichTextElements[k] : k \in 1..Len(currentRichTextElements) }
    \cup UNION { { blocks[b].elements[k] : k \in 1..Len(blocks[b].elements) } :
                  b \in { n \in 1..Len(blocks) : blocks[n].type = "rich_text" } }

\* C28: an ordered list whose first item has numeral s is emitted with offset s - 1
\* exactly when s > 1, whatever the numerals of its later items, and a bullet list or
\* an ordered list that starts at 0 or 1 has no offset field
C28_OffsetFromFirstNumeral ==
    /\ (WholeTextIsList /\ Done
        /\ \E k \in 1..Len(lines) : IsItemLine(k)
        /\ OrderedMatch(Trim(lines[FirstItemLine])).ok)
       => /\ document[1].attributes.start = FirstNumeral
          /\ EmittedList.style = "ordered"
          /\ Has(EmittedList, "offset") <=> FirstNumeral > 1
          /\ Has(EmittedList, "offset") => EmittedList.offset = FirstNumeral - 1
    /\ \A l \in ListsEmitted :
           (l.type = "rich_text_list" /\ Has(l, "offset"))
           => l.style = "ordered" /\ l.offset >= 1

C28_ListFromTwoWithLaterTen ==
    /\ Done
    /\ lines = << << "2", ".", " ", "n" >>, << "1", "0", "]", " ", "t" >> >>
    /\ EmittedList.style = "ordered"
    /\ Len(EmittedList.elements) = 2
    /\ EmittedList.offset = 1

\* the positions, after the opening fence at line index o, of the lines that are a
\* closing fence
ClosingFences(o) == { j \in (o + 2)..Len(lines) : StartsWith(Trim(lines[j]), Fence) }

\* the position of the first closing fence, or one past the last line when there is none
FirstClosing(o) ==
    IF ClosingFences(o) = {} THEN Len(lines) + 1
    ELSE CHOOSE j \in ClosingFences(o) : \A k \in ClosingFences(o) : j <= k

\* the lines between the opening fence and the first closing fence, as they are
FencedLines(o) == [k \in 1..(FirstClosing(o) - o - 2) |-> lines[o + 1 + k]]

\* C29: a fenced code block takes every line after its opening fence as it is, up to
\* and including the first closing fence or to the end of the input, in one code_block
\* node whose content is these lines joined by newline, and the node is rendered as
\* one preformatted element with one text element without style
C29_FencedLinesVerbatim ==
    [][/\ Pushes("code_block")
          => /\ StartsWith(lines[currentIndex + 1], Fence)
             /\ document'[Len(document')].content
                = Join(FencedLines(currentIndex), << "\n" >>)
             /\ ~Has(document'[Len(document')], "children")
             /\ currentIndex' = Min(FirstClosing(currentIndex), Len(lines))
       /\ (Handled({"code_block"}) /\ origin = "text")'
          => LastRendered'
             = [type |-> "rich_text_preformatted",
                elements |-> << [type |-> "text",
                                 text |-> document'[childIndex'].content] >>]]_vars

C29_IndentedLineBetweenFences ==
    /\ Done
    /\ origin = "text"
    /\ Len(lines) = 3
    /\ lines[1] = Fence
    /\ lines[2] = << " ", " ", "-", " ", "j" >>
    /\ lines[3] = << " " >> \o Fence
    /\ Len(blocks) = 1
    /\ blocks[1].elements = << [type |-> "rich_text_preformatted",
                                elements |-> << [type |-> "text", text |-> lines[2]] >>] >>

RECURSIVE NodesOf(_)
\* a node and every node below it
NodesOf(node) ==
    { node } \cup (IF Has(node, "children")
                   THEN UNION { NodesOf(node.children[k]) : k \in 1..Len(node.children) }
                   ELSE {})

\* every node of the tree that parse has returned
ParsedNodes ==
    IF origin \in {"text", "metadata"} /\ pc # "parse"
    THEN NodesOf([type |-> "document", children |-> document])
    ELSE {}

InlineTypes == {"text", "strong", "emphasis", "strikethrough", "code_inline", "link", "image"}

\* list items, table cells and blockquotes hold inline-level children only
OnlyInlineBelowItemsCellsQuotes ==
    \A n \in ParsedNodes :
        (n.type \in {"list_item", "table_cell", "blockquote"} /\ Has(n, "children"))
        => \A k \in 1..Len(n.children) : n.children[k].type \in InlineTypes

\* C30 as stated: every node of a tree that parse returns, a thematic break included,
\* has exactly one of content and children, and list items, table cells and
\* blockquotes hold inline-level children only
C30_ContentXorChildren ==
    /\ \A n \in ParsedNodes : Has(n, "content") # Has(n, "children")
    /\ OnlyInlineBelowItemsCellsQuotes

\* C30, amended: no node of a tree that parse returns has both content and children;
\* a thematic break has neither, every other node has exactly one of them; list
\* items, table cells and blockquotes hold inline-level children only
C30_ContentXorChildrenButBreak ==
    /\ \A n \in ParsedNodes :
           /\ ~(Has(n, "content") /\ Has(n, "children"))
           /\ (Has(n, "content") \/ Has(n, "children")) <=> n.type # "thematic_break"
    /\ OnlyInlineBelowItemsCellsQuotes

C30_BreakQuoteAndList ==
    /\ origin = "text"
    /\ pc = "parsed"
    /\ Len(document) = 3
    /\ document[1].type = "thematic_break"
    /\ DOMAIN document[1] = {"type"}
    /\ document[2].type = "blockquote"
    /\ document[3].type = "list"

====
